---- MODULE Spec2Model ----
(***************************************************************************)
(* Translation orchestration of BlumeMangaTranslator:                      *)
(*   translator/base.py     TranslatorContainer, Translator (failover)     *)
(*   translator/service.py  TranslationService (batching, rate-limit retry)*)
(*   translator/rate_limiter.py  BackoffState, activate_slow_mode          *)
(*                                                                         *)
(* Time is the value of time.monotonic(), counted in ticks of 500 ms.      *)
(***************************************************************************)
EXTENDS Integers, Sequences, FiniteSets, TLC

(* ------------------------------ bounds -------------------------------- *)
MaxContainers == 2      \* containers of one Translator
MaxFailures == 2        \* largest max_failures a container is built with
MaxTime == 3            \* last clock tick at which a call may start
MaxRequests == 3        \* requests handed to _split_into_batches
MaxBatchSize == 3       \* largest capabilities.max_batch_size

\* cap on the fail_uses counter
MaxFailUses == MaxFailures + 1

MaxBatchLen == 2        \* requests handed to translate_batch
MaxBlocks == 3          \* blocks handed to translate_blocks
MaxBudgetSec == 100     \* last second at which a paced call may start
MaxOps == 6             \* rate_limiter operations and clock jumps of one behaviour
MaxBackoffOps == 12     \* backoff operations of one behaviour
MaxCapacity == 3        \* largest ContextManager capacity
MaxAdds == 5            \* add_segment calls of one behaviour
MaxLimit == 4           \* largest limit handed to get_recent_context
MaxFrontCalls == 3      \* translate_text / translate_blocks calls of one behaviour
MaxContextWindow == 2   \* largest declared context_window
MaxLimitedSec == 20     \* last second at which a limited-mode request may start
MaxTextLen == 3         \* letters of a text handed to the glossary post-processing
MaxCounterOps == 13     \* limiter operations of one window-counter behaviour
MaxEmptyResults == 1    \* empty translations the engine returns in one translate_blocks call
MaxPageTextCalls == 1   \* translate_text calls before the translate_blocks call
MaxPenaltyOps == 10     \* backoff and limiter operations of one penalty behaviour
MaxTranslators == 3     \* translators created through the registry

(* --------------------------- helper values ----------------------------- *)
NoTime == 0 - 1         \* blocked_until = None
NoContainer == 0        \* container = None

Max(a, b) == IF a >= b THEN a ELSE b
Min(a, b) == IF a <= b THEN a ELSE b

\* seconds / milliseconds of the source converted to clock ticks (500 ms)
MsToTicks(ms) == ms \div 500
SecToTicks(s) == MsToTicks(s * 1000)

\* error messages an engine call can carry
Msgs == {"e1", "e2"}
NoError == [kind |-> "none", msg |-> "none"]
NoOutcome == [kind |-> "none", msg |-> "none", cause |-> "none"]
NoCall == [container |-> 0, kind |-> "none", msg |-> "none"]
NoContainersMsg == "No available translator containers"

\* what one engine call (_translate_request) can do
EngineOutcomes ==
    {[kind |-> "ok", msg |-> "none"]}
    \cup [kind : {"LimitedModeError", "TranslationError", "Exception"}, msg : Msgs]

(* ---------------------------- the state -------------------------------- *)
VARIABLES
    containers,     \* Translator._containers: sequence of TranslatorContainer
    attempt_delay_ms, \* Translator.capabilities.attempt_delay_ms
    now,            \* time.monotonic(), in ticks
    pc,             \* position of _translate_with_failover
    container,      \* local `container` (index into containers, 0 = None)
    attempts,       \* local `attempts`
    last_error,     \* local `last_error`
    outcome,        \* how the request ended: result or raised error
    n_calls,        \* number of engine calls of the current request
    last_call,      \* the latest engine call of the current request
    restored,       \* whether the initial selection of the current request restored the primary
    svc_pc,         \* position of TranslationService._run_with_rate_limit_retry
    fn_calls,       \* number of times the wrapper has invoked fn()
    svc_outcome,    \* what the wrapper returned or raised
    backoff,        \* rate_limiter._BACKOFFS[engine_id]
    callback_set,   \* TranslationService._rate_limit_callback is not None
    cb_calls,       \* invocations of the callback during the current wrapper call
    sleeps,         \* time.sleep() durations of the current wrapper call, in ticks
    requests,       \* argument of _split_into_batches
    capabilities,   \* argument of _split_into_batches
    batches,        \* return value of _split_into_batches
    batch_pc,       \* "input" before _split_into_batches has run, "split" after
    tb_pc,          \* position of Translator.translate_batch
    tb_requests,    \* argument `requests` of translate_batch
    tb_results,     \* local `results` of translate_batch
    tb_outcome,     \* what translate_batch returned or raised
    blk_pc,         \* position of TranslationService.translate_blocks
    blocks,         \* argument `blocks`: original_text and translated_text of each
    request_pairs,  \* local `request_pairs`: the block index of each request
    all_results,    \* local `all_results`
    batch_idx,      \* index of the batch the loop of line 217 is at
    tb_log,         \* the batches passed to translator.translate_batch, in call order
    mismatch,       \* some translate_batch call returned a list of another length than its batch
    blk_outcome,    \* how translate_blocks ended
    cfg,            \* RateLimiter.cfg
    last_call_ts,   \* RateLimiter._last_call_ts, in ticks
    window_start_ts, \* RateLimiter._window_start_ts, in ticks
    window_calls,   \* RateLimiter._window_calls
    lim_op,         \* the latest rate_limiter operation and what it returned
    lim_ops,        \* number of rate_limiter operations and clock jumps so far
    pending_notice, \* slow mode was freshly activated, is still on, and no notice was consumed since
    admits,         \* return times of the latest slow-mode wait_or_raise calls
    engine,         \* DeepLTranslator._translate_request: its position, len(text), and
                    \* whether slow mode was on when wait_or_raise returned
    history,        \* ContextManager._history: the entries, oldest first
    max_length,     \* ContextManager._max_length
    n_added,        \* number of add_segment calls so far; entry k is the k-th added
    n_since,        \* number of add_segment calls since the last clear()
    ctx_op,         \* the latest ContextManager call: name, argument, returned list
    snapshot,       \* the list a caller got from get_recent_context, as the caller has it
    translator_cache, \* TranslationService._translator_cache: set of (key, instance)
    n_created,      \* number of translators create_translator has built; the k-th is k
    context_window, \* capabilities.context_window declared for the translators
    knowledge,      \* project.knowledge of every project
    loads,          \* number of load_title_knowledge calls for every project
    front_op,       \* the latest translate_text / translate_blocks call and its result
    front_calls,    \* number of translate_text / translate_blocks calls so far
    gloss_pc,       \* position of the caller of _apply_glossary_and_name_fixes
    gloss_text,     \* the translated text handed to _apply_glossary_and_name_fixes
    gloss_knowledge, \* the TitleKnowledge handed to it: terms and characters
    gloss_once,     \* its result on gloss_text
    gloss_twice,    \* its result on gloss_once, under the same knowledge
    page,           \* the latest translate_blocks or translate_text call: its
                    \* arguments, the state it found, the context of each of its
                    \* requests and what the engine gave
    sent,           \* the engine calls of the wrapper's current call: for each, the
                    \* attempt of the wrapper, the request of the batch and the outcome
    objects,        \* the TranslatorCapabilities objects alive, in order of creation
    translators,    \* the translators create_translator has returned: the engine id
                    \* and the reference of the capabilities object each holds
    create_result   \* what the latest create_translator call did

transVars == <<containers, attempt_delay_ms, now, pc, container, attempts,
               last_error, outcome, n_calls, last_call, restored>>
svcVars == <<svc_pc, fn_calls, svc_outcome, backoff, callback_set, cb_calls, sleeps>>
batchVars == <<requests, capabilities, batches, batch_pc>>
tbVars == <<tb_pc, tb_requests, tb_results, tb_outcome>>
blkVars == <<blk_pc, blocks, request_pairs, all_results, batch_idx, tb_log,
             mismatch, blk_outcome>>
limVars == <<cfg, last_call_ts, window_start_ts, window_calls, lim_op, lim_ops,
             pending_notice, admits>>
engVars == <<engine>>
ctxVars == <<history, max_length, n_added, n_since, ctx_op, snapshot>>
frontVars == <<translator_cache, n_created, context_window, knowledge, loads,
               front_op, front_calls>>
glossVars == <<gloss_pc, gloss_text, gloss_knowledge, gloss_once, gloss_twice>>
pageVars == <<page, sent>>
regVars == <<objects, translators, create_result>>
moreVars == <<ctxVars, frontVars, glossVars, pageVars, regVars>>
extVars == <<tbVars, blkVars, limVars, engVars, moreVars>>
vars == <<transVars, svcVars, batchVars, extVars>>

(* ------------------------ TranslatorContainer -------------------------- *)
TranslatorContainer(primary, timeout, maxf) ==
    [is_primary |-> primary, block_timeout_sec |-> timeout, max_failures |-> maxf,
     fail_uses |-> 0, blocked_until |-> NoTime, last_used_at |-> 0]

is_blocked(c, t) == c.blocked_until # NoTime /\ c.blocked_until > t

\* mark_success without "self.blocked_until = None"
mark_success_KeepsBlock(c, t) == [c EXCEPT !.fail_uses = 0, !.last_used_at = t]

mark_success(c, t) ==
    [c EXCEPT !.fail_uses = 0, !.blocked_until = NoTime, !.last_used_at = t]

BlockLimitReached_Strict(c) == c.fail_uses > c.max_failures

BlockLimitReached(c) == c.fail_uses >= c.max_failures

mark_failure(c, t) ==
    LET c1 == [c EXCEPT !.fail_uses = c.fail_uses + 1, !.last_used_at = t]
    IN  IF BlockLimitReached(c1)
        THEN [c1 EXCEPT !.blocked_until = t + SecToTicks(c1.block_timeout_sec)]
        ELSE c1

restore(c) == [c EXCEPT !.fail_uses = 0, !.blocked_until = NoTime]

(* ----------------------------- Translator ------------------------------ *)
\* Translator._primary_container: first container flagged primary, else the
\* first container, else None
PrimaryFallback_None(cs) == NoContainer

PrimaryFallback(cs) == IF Len(cs) > 0 THEN 1 ELSE NoContainer

_primary_container(cs) ==
    LET flagged == {i \in 1..Len(cs) : cs[i].is_primary}
    IN  IF flagged # {}
        THEN CHOOSE i \in flagged : \A j \in flagged : i <= j
        ELSE PrimaryFallback(cs)

\* sort key of _get_container: (c is last_used, c.last_used_at); sorted() is
\* stable, so ties keep list order
SortKeyLess_NoLastUsed(cs, last_used, i, j) ==
    \/ cs[i].last_used_at < cs[j].last_used_at
    \/ cs[i].last_used_at = cs[j].last_used_at /\ i < j

SortKeyLess(cs, last_used, i, j) ==
    LET fi == IF i = last_used THEN 1 ELSE 0
        fj == IF j = last_used THEN 1 ELSE 0
    IN  \/ fi < fj
        \/ fi = fj /\ cs[i].last_used_at < cs[j].last_used_at
        \/ fi = fj /\ cs[i].last_used_at = cs[j].last_used_at /\ i < j

\* Translator._get_container: the containers after the call, the chosen index
\* (0 = None) and whether the primary was restored
ShouldRestore_IgnorePrefer(unblocked, prefer_primary, primary) ==
    unblocked = {} /\ primary # NoContainer

ShouldRestore(unblocked, prefer_primary, primary) ==
    unblocked = {} /\ prefer_primary /\ primary # NoContainer

_get_container(cs, prefer_primary, last_used, t) ==
    LET unblocked == {i \in 1..Len(cs) : ~is_blocked(cs[i], t)}
        primary == _primary_container(cs)
        doRestore == ShouldRestore(unblocked, prefer_primary, primary)
        cs1 == IF doRestore THEN [cs EXCEPT ![primary] = restore(cs[primary])] ELSE cs
        available == IF doRestore THEN {primary} ELSE unblocked
    IN  IF available = {}
        THEN [cs |-> cs1, chosen |-> NoContainer, restored |-> doRestore]
        ELSE LET chosen == CHOOSE i \in available :
                               \A j \in available \ {i} : SortKeyLess(cs1, last_used, i, j)
             IN  [cs |-> [cs1 EXCEPT ![chosen].last_used_at = t],
                  chosen |-> chosen, restored |-> doRestore]

MaxAttempts_OneMore(cs) == Max(Len(cs), 1) * 2 + 1

MaxAttempts(cs) == Max(Len(cs), 1) * 2

\* the error raised after the retry loop of _translate_with_failover
ExhaustedError(err) ==
    IF err # NoError
    THEN [kind |-> "TranslationError", msg |-> err.msg, cause |-> err.kind]
    ELSE [kind |-> "TranslationError", msg |-> NoContainersMsg, cause |-> "none"]

\* Translator.__init__: an empty or missing container list becomes one
\* primary container with the dataclass defaults
DefaultContainers == <<TranslatorContainer(TRUE, 60, 3)>>

InitContainers(cs) == IF Len(cs) = 0 THEN DefaultContainers ELSE cs

(* ------------------ Translator._translate_with_failover ---------------- *)
\* which clause of the try statement (lines 136-153) handles an engine call
\* that ended with `kind`; the except clauses are tried in source order
ExceptClause_NoLimitedClause(kind) ==
    IF kind = "ok" THEN "else"
    ELSE IF kind = "TranslationError" THEN "failover"
    ELSE "wrap"

ExceptClause(kind) ==
    IF kind = "ok" THEN "else"
    ELSE IF kind = "LimitedModeError" THEN "reraise"
    ELSE IF kind = "TranslationError" THEN "failover"
    ELSE "wrap"

\* lines 127-130, then the first pass through the loop head (lines 132-135):
\* a None container leaves the loop at once
FailoverEnter(t) ==
    LET sel == _get_container(containers, TRUE, NoContainer, t)
    IN  /\ containers' = sel.cs
        /\ container' = sel.chosen
        /\ restored' = sel.restored
        /\ last_error' = NoError
        /\ n_calls' = 0
        /\ last_call' = NoCall
        /\ IF sel.chosen = NoContainer
           THEN /\ attempts' = 1
                /\ pc' = "raised"
                /\ outcome' = ExhaustedError(NoError)
           ELSE /\ attempts' = 1
                /\ pc' = "attempt"
                /\ outcome' = NoOutcome
        /\ UNCHANGED attempt_delay_ms

\* one engine call (line 137) with its except/else clause, up to the next
\* engine call or to the end of the request
FailoverAttempt(res) ==
    LET c == container
        call == [container |-> c, kind |-> res.kind, msg |-> res.msg]
        handler == ExceptClause(res.kind)
    IN
    /\ pc = "attempt"
    /\ n_calls' = n_calls + 1
    /\ last_call' = call
    /\ UNCHANGED <<attempt_delay_ms, restored>>
    /\ CASE handler = "else" ->
              /\ containers' = [containers EXCEPT ![c] = mark_success(containers[c], now)]
              /\ pc' = "returned"
              /\ outcome' = [kind |-> "result", msg |-> "none", cause |-> "none"]
              /\ UNCHANGED <<container, attempts, last_error, now>>
         [] handler = "reraise" ->
              /\ containers[c].fail_uses < MaxFailUses
              /\ containers' = [containers EXCEPT ![c] = mark_failure(containers[c], now)]
              /\ pc' = "raised"
              /\ outcome' = [kind |-> res.kind, msg |-> res.msg, cause |-> "none"]
              /\ UNCHANGED <<container, attempts, last_error, now>>
         [] handler = "failover" ->
              LET failed == [containers EXCEPT ![c] = mark_failure(containers[c], now)]
                  sel == _get_container(failed, FALSE, c, now)
                  delay == IF attempt_delay_ms > 0 THEN MsToTicks(attempt_delay_ms) ELSE 0
                  err == [kind |-> res.kind, msg |-> res.msg]
              IN  /\ containers[c].fail_uses < MaxFailUses
                  /\ last_error' = err
                  /\ containers' = sel.cs
                  /\ container' = sel.chosen
                  /\ now' = now + delay
                  /\ IF attempts < MaxAttempts(containers) /\ sel.chosen # NoContainer
                     THEN /\ attempts' = attempts + 1
                          /\ pc' = "attempt"
                          /\ UNCHANGED outcome
                     ELSE /\ attempts' = Min(attempts + 1, MaxAttempts(containers))
                          /\ pc' = "raised"
                          /\ outcome' = ExhaustedError(err)
         [] handler = "wrap" ->
              /\ containers[c].fail_uses < MaxFailUses
              /\ containers' = [containers EXCEPT ![c] = mark_failure(containers[c], now)]
              /\ pc' = "raised"
              /\ outcome' = [kind |-> "TranslationError", msg |-> res.msg, cause |-> res.kind]
              /\ UNCHANGED <<container, attempts, last_error, now>>

\* a caller invokes Translator.translate_text(request) directly
TranslateText ==
    /\ pc = "idle"
    /\ svc_pc = "idle"
    /\ now <= MaxTime
    /\ FailoverEnter(now)
    /\ UNCHANGED <<now, svcVars, batchVars, extVars>>

EngineCall ==
    /\ \E res \in EngineOutcomes : FailoverAttempt(res)
    /\ UNCHANGED <<svcVars, batchVars, extVars>>

\* the frame of _translate_with_failover is gone: its locals no longer exist
FailoverLeave ==
    /\ pc' = "idle"
    /\ container' = NoContainer
    /\ attempts' = 0
    /\ last_error' = NoError
    /\ outcome' = NoOutcome
    /\ n_calls' = 0
    /\ last_call' = NoCall
    /\ restored' = FALSE
    /\ UNCHANGED <<containers, attempt_delay_ms>>

\* the direct caller has received the result or the exception
TranslateTextDone ==
    /\ pc \in {"returned", "raised"}
    /\ svc_pc = "idle"
    /\ FailoverLeave
    /\ UNCHANGED <<now, svcVars, batchVars, extVars>>

\* time.monotonic() advances
Tick ==
    /\ now < MaxTime
    /\ pc \in {"idle", "attempt"}
    /\ now' = now + 1
    /\ UNCHANGED <<containers, attempt_delay_ms, pc, container, attempts,
                   last_error, outcome, n_calls, last_call, restored>>
    /\ UNCHANGED <<svcVars, batchVars, extVars>>

(* ------------------------- initial translator -------------------------- *)
BlockTimeouts == {0, 1}         \* block_timeout_sec values containers are built with
AttemptDelays == {0, 600}       \* attempt_delay_ms values (600 is the dataclass default)

\* the container lists Translator.__init__ can be given: up to MaxContainers
\* containers; none, the first, the last or all of them flagged primary
ContainerListsOf(timeouts) ==
    {<<>>}
    \cup UNION {
         {[i \in 1..n |-> TranslatorContainer(i \in prim, tmo, mf)] :
              prim \in {{}, {1}, {n}, 1..n}}
         : <<n, tmo, mf>> \in (1..MaxContainers) \X timeouts \X (1..MaxFailures)}

ContainerLists == ContainerListsOf({1})

InitBackoff == [penalty_delay_sec |-> 0, last_error_ts |-> 0, slow_mode |-> FALSE,
                slow_since |-> 0, notified |-> FALSE]

InitTranslatorWith(lists, delays) ==
    /\ \E cs \in lists : containers = InitContainers(cs)
    /\ attempt_delay_ms \in delays
    /\ now = 1
    /\ pc = "idle"
    /\ container = NoContainer
    /\ attempts = 0
    /\ last_error = NoError
    /\ outcome = NoOutcome
    /\ n_calls = 0
    /\ last_call = NoCall
    /\ restored = FALSE

InitService ==
    /\ svc_pc = "idle"
    /\ fn_calls = 0
    /\ svc_outcome = NoOutcome
    /\ backoff = InitBackoff
    /\ callback_set = FALSE
    /\ cb_calls = 0
    /\ sleeps = <<>>

NoBatchOutcome == [kind |-> "none", msg |-> "none", cause |-> "none", results |-> <<>>]

InitTranslateBatch ==
    /\ tb_pc = "idle"
    /\ tb_requests = <<>>
    /\ tb_results = <<>>
    /\ tb_outcome = NoBatchOutcome

InitBlocksWith(bs) ==
    /\ blk_pc = "idle"
    /\ blocks \in bs
    /\ request_pairs = <<>>
    /\ all_results = <<>>
    /\ batch_idx = 0
    /\ tb_log = <<>>
    /\ mismatch = FALSE
    /\ blk_outcome = NoOutcome

InitBlocks == InitBlocksWith({<<>>})

\* RateLimitConfig; min_interval_sec is kept in milliseconds
RateLimitConfig(min_interval_ms, max_calls, max_chars) ==
    [min_interval_sec |-> min_interval_ms, max_calls_per_min |-> max_calls,
     max_chars_per_request |-> max_chars]

\* DEFAULT_LIMITS (deepl and yandex_translate have the same values)
DEFAULT_LIMITS ==
    [deepl |-> RateLimitConfig(4000, 10, 800),
     google_translate |-> RateLimitConfig(3500, 12, 800),
     yandex_translate |-> RateLimitConfig(4000, 10, 800)]

\* get_rate_limiter: the configuration of an engine id without an entry
FallbackLimits == RateLimitConfig(3000, 10, 800)

get_rate_limiter_cfg(engine_id) ==
    IF engine_id \in DOMAIN DEFAULT_LIMITS THEN DEFAULT_LIMITS[engine_id] ELSE FallbackLimits

NoOp == [name |-> "none", arg |-> 0, ret |-> "none", flip |-> FALSE,
         msg |-> [is_none |-> TRUE, chars |-> <<>>]]

\* RateLimiter.__init__ with the configuration of one of `engines`
InitLimiterWith(engines) ==
    /\ \E e \in engines : cfg = get_rate_limiter_cfg(e)
    /\ last_call_ts = 0
    /\ window_start_ts = 0
    /\ window_calls = 0
    /\ lim_op = NoOp
    /\ lim_ops = 0
    /\ pending_notice = FALSE
    /\ admits = <<>>

InitLimiter == InitLimiterWith({"deepl"})

NoEngine == [pc |-> "start", text_length |-> 0, was_slow |-> FALSE]

InitEngine == engine = NoEngine

\* nothing but the translator or the wrapper is in use
\* ContextManager.__init__: lines 23-25
DefaultMaxLength == 50

NoCtxOp == [name |-> "none", arg |-> 0, ret |-> <<>>]

InitContextWith(capacities) ==
    /\ history = <<>>
    /\ max_length \in capacities
    /\ n_added = 0
    /\ n_since = 0
    /\ ctx_op = NoCtxOp
    /\ snapshot = <<>>

InitContext == InitContextWith({DefaultMaxLength})

\* the projects handed to the service
Projects == {"p1", "p2"}

NoKnowledge == [kind |-> "None", characters |-> <<>>, terms |-> <<>>, style |-> "None"]

NoFrontOp ==
    [name |-> "none", text |-> [is_none |-> TRUE, chars |-> <<>>], reset |-> FALSE,
     engine_id |-> "none", engine_state |-> [is_none |-> TRUE, items |-> {}],
     project |-> "none", resolved |-> FALSE, inst |-> 0, contexts |-> <<>>,
     engine_called |-> FALSE, knowledge |-> NoKnowledge,
     ret |-> [kind |-> "none", text |-> [is_none |-> TRUE, chars |-> <<>>]]]

\* TranslationService.__init__ (lines 120-123), the registry's context_window
\* and projects without knowledge
InitFrontWith(windows) ==
    /\ translator_cache = {}
    /\ n_created = 0
    /\ context_window \in windows
    /\ knowledge = [p \in Projects |-> NoKnowledge]
    /\ loads = [p \in Projects |-> 0]
    /\ front_op = NoFrontOp
    /\ front_calls = 0

\* TranslatorCapabilities.context_window: base.py line 24
DefaultContextWindow == 10

InitFront == InitFrontWith({DefaultContextWindow})

\* TitleKnowledge(characters=[], terms=[]): service.py line 46
EmptyKnowledge == [terms |-> <<>>, characters |-> <<>>]

InitGlossaryWith(texts, knowledges) ==
    /\ gloss_pc = "input"
    /\ gloss_text \in texts
    /\ gloss_knowledge \in knowledges
    /\ gloss_once = <<>>
    /\ gloss_twice = <<>>

InitGlossary == InitGlossaryWith({<<>>}, {EmptyKnowledge})

\* no translate_blocks call has been made
NoPage == [call |-> "none", reset |-> FALSE, blocks_before |-> <<>>,
           history_before |-> <<>>, contexts |-> <<>>, empty_results |-> {},
           text |-> [is_none |-> TRUE, chars |-> <<>>], result |-> "none"]

NoLimit == 0 - 1        \* max_chars_per_request = None

\* translator/registry.py lines 41-91: the capabilities declared per engine;
\* a field the source leaves out has the default of base.py lines 20-25
_default_caps ==
    [supports_batch |-> FALSE, max_batch_size |-> 1, max_chars_per_request |-> NoLimit,
     max_chars_total |-> NoLimit, context_window |-> 10, attempt_delay_ms |-> 600]

TunedCapabilities(batch, size, chars, window, delay) ==
    [_default_caps EXCEPT !.supports_batch = batch, !.max_batch_size = size,
                          !.max_chars_per_request = chars, !.context_window = window,
                          !.attempt_delay_ms = delay]

DeclaredCapabilities ==
    <<TunedCapabilities(TRUE, 50, 4500, 10, 700),
      TunedCapabilities(TRUE, 20, 4000, 8, 500),
      TunedCapabilities(TRUE, 10, 4500, 8, 800),
      TunedCapabilities(TRUE, 25, 9000, 12, 700),
      TunedCapabilities(FALSE, 1, 2500, 16, 800),
      TunedCapabilities(FALSE, 1, 1200, 6, 500),
      TunedCapabilities(TRUE, 8, 2200, 8, 600)>>

\* _CAPABILITIES: the object each engine id is bound to, by its reference
_CAPABILITIES ==
    [deepl |-> 1, google_translate |-> 2, yandex_translate |-> 3, azure_translate |-> 4,
     openai_translate |-> 5, argos |-> 6, marian_m2m_nllb |-> 7]

\* registry.py lines 104-114: every engine config has declared capabilities,
\* and its entry holds that same object
_ENTRIES == _CAPABILITIES

NoCreateResult == [kind |-> "none", engine_id |-> "none", inst |-> 0]

InitRegistry ==
    /\ objects = DeclaredCapabilities
    /\ translators = <<>>
    /\ create_result = NoCreateResult

InitPage == page = NoPage /\ sent = <<>>

InitMore == InitContext /\ InitFront /\ InitGlossary /\ InitPage /\ InitRegistry

InitExt == InitTranslateBatch /\ InitBlocks /\ InitLimiter /\ InitEngine /\ InitMore

InitBatch ==
    /\ requests = <<>>
    /\ capabilities = [supports_batch |-> FALSE, max_batch_size |-> 1,
                       max_chars_per_request |-> NoTime]
    /\ batches = <<>>
    /\ batch_pc = "input"

(* ---------------- specification: Translator with failover -------------- *)
InitTranslator == InitTranslatorWith(ContainerLists, AttemptDelays)

Init == InitTranslator /\ InitService /\ InitBatch /\ InitExt

Next == TranslateText \/ EngineCall \/ TranslateTextDone \/ Tick

Spec == Init /\ [][Next]_vars

(* ---- specification: a failing first and a working second container ---- *)
\* two containers with max_failures = 2; none, either or both flagged primary
FailingFirstContainers ==
    {[i \in 1..2 |-> TranslatorContainer(i \in prim, tmo, 2)] :
         prim \in SUBSET {1, 2}, tmo \in BlockTimeouts}

\* every engine call on container 1 raises TranslationError, every engine
\* call on container 2 returns
FailingFirstEngineCall ==
    /\ FailoverAttempt(IF container = 1
                       THEN [kind |-> "TranslationError", msg |-> "e1"]
                       ELSE [kind |-> "ok", msg |-> "none"])
    /\ UNCHANGED <<svcVars, batchVars, extVars>>

InitFailingFirst ==
    /\ InitTranslatorWith(FailingFirstContainers, AttemptDelays)
    /\ InitService
    /\ InitBatch
    /\ InitExt

NextFailingFirst == TranslateText \/ FailingFirstEngineCall \/ TranslateTextDone \/ Tick

SpecFailingFirst == InitFailingFirst /\ [][NextFailingFirst]_vars

(* -------- specification: a Translator rotating three containers -------- *)
\* three containers (e.g. three API tokens), the first one primary
ThreeContainerLists ==
    {[i \in 1..3 |-> TranslatorContainer(i = 1, tmo, mf)] :
         <<tmo, mf>> \in BlockTimeouts \X (1..MaxFailures)}

InitRotation ==
    /\ InitTranslatorWith(ThreeContainerLists, AttemptDelays)
    /\ InitService
    /\ InitBatch
    /\ InitExt

SpecRotation == InitRotation /\ [][Next]_vars

(* ------------- specification: TranslatorContainer on its own ----------- *)
MarkFailure ==
    /\ \E i \in 1..Len(containers) :
          /\ containers[i].fail_uses < MaxFailUses
          /\ containers' = [containers EXCEPT ![i] = mark_failure(containers[i], now)]
    /\ UNCHANGED <<attempt_delay_ms, now, pc, container, attempts, last_error,
                   outcome, n_calls, last_call, restored, svcVars, batchVars, extVars>>

MarkSuccess ==
    /\ \E i \in 1..Len(containers) :
          containers' = [containers EXCEPT ![i] = mark_success(containers[i], now)]
    /\ UNCHANGED <<attempt_delay_ms, now, pc, container, attempts, last_error,
                   outcome, n_calls, last_call, restored, svcVars, batchVars, extVars>>

Restore ==
    /\ \E i \in 1..Len(containers) :
          containers' = [containers EXCEPT ![i] = restore(containers[i])]
    /\ UNCHANGED <<attempt_delay_ms, now, pc, container, attempts, last_error,
                   outcome, n_calls, last_call, restored, svcVars, batchVars, extVars>>

NextContainer == MarkFailure \/ MarkSuccess \/ Restore \/ Tick

InitContainer ==
    /\ InitTranslatorWith(ContainerListsOf(BlockTimeouts), AttemptDelays)
    /\ InitService
    /\ InitBatch
    /\ InitExt

SpecContainer == InitContainer /\ [][NextContainer]_vars

(* ------------------------- rate_limiter backoff ------------------------ *)
\* penalty_delay_sec is kept in milliseconds
SlowPenaltyFloorMs == 2000
SlowPenaltyCeilMs == 30000
MinRetrySleepMs == 1500

activate_slow_mode_AlwaysResets(state, t) ==
    [penalty_delay_sec |-> Min(Max(state.penalty_delay_sec, SlowPenaltyFloorMs),
                               SlowPenaltyCeilMs),
     last_error_ts |-> t,
     slow_since |-> IF state.slow_since # 0 THEN state.slow_since ELSE t,
     slow_mode |-> TRUE,
     notified |-> FALSE]

activate_slow_mode(state, t) ==
    LET was_slow == state.slow_mode
    IN  [penalty_delay_sec |-> Min(Max(state.penalty_delay_sec, SlowPenaltyFloorMs),
                                   SlowPenaltyCeilMs),
         last_error_ts |-> t,
         slow_since |-> IF state.slow_since # 0 THEN state.slow_since ELSE t,
         slow_mode |-> TRUE,
         notified |-> IF ~was_slow THEN FALSE ELSE state.notified]

(* ------------- TranslationService._run_with_rate_limit_retry ----------- *)
\* what the wrapper does when the n-th fn() raised LimitedModeError
OnLimitedMode_AlwaysRetry(n) == "retry"

OnLimitedMode(n) == IF n = 1 THEN "retry" ELSE "raise"

\* lines 295-296: whether the callback is invoked after activate_slow_mode
ShouldNotify_OnlyFresh(cb_set, was_slow) == cb_set /\ ~was_slow

ShouldNotify(cb_set, was_slow) == cb_set

\* the wrapper leaving the backoff state as the engine's own
\* register_backoff_failure classified the failure
SlowModeOnRetry_AsClassified(state, t) == state

\* line 294: activate_slow_mode(engine_id, str(exc)), whatever the error holds
SlowModeOnRetry(state, t) == activate_slow_mode(state, t)

\* line 298, in ticks
RetryWait_Floor(st) == MsToTicks(MinRetrySleepMs)

RetryWait(st) == MsToTicks(Max(st.penalty_delay_sec, MinRetrySleepMs))

\* the error the wrapper raises for the LimitedModeError of the retry
SecondFailureError(exc2) ==
    [kind |-> "TranslationError", msg |-> exc2.msg, cause |-> exc2.kind]

SetRateLimitCallback ==
    /\ svc_pc = "idle"
    /\ callback_set' = TRUE
    /\ UNCHANGED <<svc_pc, fn_calls, svc_outcome, backoff, cb_calls, sleeps>>
    /\ UNCHANGED <<transVars, batchVars, extVars>>

\* the wrapper is entered and invokes fn() = translator.translate_text(request)
RunWithRetry ==
    /\ svc_pc = "idle"
    /\ pc = "idle"
    /\ now <= MaxTime
    /\ svc_pc' = "called"
    /\ fn_calls' = 1
    /\ svc_outcome' = NoOutcome
    /\ cb_calls' = 0
    /\ sleeps' = <<>>
    /\ FailoverEnter(now)
    /\ UNCHANGED <<now, backoff, callback_set, batchVars, extVars>>

\* fn() has returned or raised: lines 292-303
FnDone ==
    /\ svc_pc = "called"
    /\ pc \in {"returned", "raised"}
    /\ IF outcome.kind = "LimitedModeError"
       THEN IF OnLimitedMode(fn_calls) = "retry"
            THEN LET st == SlowModeOnRetry(backoff, now)
                     wait_for == RetryWait(st)
                 IN  /\ backoff' = st
                     /\ cb_calls' = IF ShouldNotify(callback_set, backoff.slow_mode)
                                    THEN cb_calls + 1
                                    ELSE cb_calls
                     /\ sleeps' = Append(sleeps, wait_for)
                     /\ now' = now + wait_for
                     /\ fn_calls' = fn_calls + 1
                     /\ FailoverEnter(now + wait_for)
                     /\ UNCHANGED <<svc_pc, svc_outcome>>
            ELSE /\ svc_pc' = "done"
                 /\ svc_outcome' = SecondFailureError(outcome)
                 /\ FailoverLeave
                 /\ UNCHANGED <<now, fn_calls, backoff, cb_calls, sleeps>>
       ELSE /\ svc_pc' = "done"
            /\ svc_outcome' = outcome
            /\ FailoverLeave
            /\ UNCHANGED <<now, fn_calls, backoff, cb_calls, sleeps>>
    /\ UNCHANGED <<callback_set, batchVars, extVars>>

\* the caller of the wrapper has received the result or the exception
RunWithRetryDone ==
    /\ svc_pc = "done"
    /\ svc_pc' = "idle"
    /\ fn_calls' = 0
    /\ svc_outcome' = NoOutcome
    /\ cb_calls' = 0
    /\ sleeps' = <<>>
    /\ UNCHANGED <<backoff, callback_set, transVars, batchVars, extVars>>

(* ------------------ specification: TranslationService ------------------ *)
\* attempt_delay_ms of the registry entries
RegistryAttemptDelays == {500, 600, 700, 800}

\* create_translator never passes containers: every translator of the
\* service has the single default container
InitServiceTranslator == InitTranslatorWith({<<>>}, RegistryAttemptDelays)

InitSvc == InitServiceTranslator /\ InitService /\ InitBatch /\ InitExt

NextService ==
    SetRateLimitCallback \/ RunWithRetry \/ EngineCall \/ FnDone \/ RunWithRetryDone \/ Tick

SpecService == InitSvc /\ [][NextService]_vars

(* --------------- TranslationService._split_into_batches ---------------- *)

\* the loop of lines 270-281 from request i on; a request is its index in
\* `requests`, whose i-th element is len(req.text)
FitsCount_OffByOne(current, max_batch) == Len(current) <= max_batch

FitsCount(current, max_batch) == Len(current) < max_batch

FitsChars_Strict(max_chars, current_chars, req_len) ==
    max_chars = NoLimit \/ (current_chars + req_len) < max_chars

FitsChars(max_chars, current_chars, req_len) ==
    max_chars = NoLimit \/ (current_chars + req_len) <= max_chars

RECURSIVE SplitLoop(_, _, _, _, _, _, _)
SplitLoop(reqs, max_batch, max_chars, i, done, current, current_chars) ==
    IF i > Len(reqs)
    THEN IF current # <<>> THEN Append(done, current) ELSE done
    ELSE LET req_len == reqs[i]
             fits_count == FitsCount(current, max_batch)
             fits_chars == FitsChars(max_chars, current_chars, req_len)
             close == current # <<>> /\ (~fits_count \/ ~fits_chars)
         IN  IF close
             THEN SplitLoop(reqs, max_batch, max_chars, i + 1,
                            Append(done, current), <<i>>, req_len)
             ELSE SplitLoop(reqs, max_batch, max_chars, i + 1,
                            done, Append(current, i), current_chars + req_len)

_split_into_batches(reqs, caps) ==
    IF ~caps.supports_batch
    THEN [i \in 1..Len(reqs) |-> <<i>>]
    ELSE SplitLoop(reqs, Max(1, caps.max_batch_size), caps.max_chars_per_request,
                   1, <<>>, <<>>, 0)

SplitIntoBatches ==
    /\ batch_pc = "input"
    /\ batches' = _split_into_batches(requests, capabilities)
    /\ batch_pc' = "split"
    /\ UNCHANGED <<requests, capabilities, transVars, svcVars, extVars>>

(* ------------------- specification: request batching ------------------- *)
TextLengths == {0, 40, 60, 120}
MaxCharsChoices == {NoLimit, 100}

RequestLists == UNION {[1..n -> TextLengths] : n \in 0..MaxRequests}

InitBatching ==
    /\ requests \in RequestLists
    /\ capabilities \in [supports_batch : BOOLEAN,
                          max_batch_size : 1..MaxBatchSize,
                          max_chars_per_request : MaxCharsChoices]
    /\ batches = <<>>
    /\ batch_pc = "input"

InitBatchSpec ==
    /\ InitTranslatorWith({<<>>}, {600})
    /\ InitService
    /\ InitBatching
    /\ InitExt

NextBatch == SplitIntoBatches

SpecBatch == InitBatchSpec /\ [][NextBatch]_vars

(* ---------------------- Translator.translate_batch --------------------- *)
\* the request lists translate_batch is called with; a request is its id
TbRequestLists == UNION {[1..n -> 1..MaxRequests] : n \in 0..MaxBatchLen}

\* the translators translate_batch is checked on: the default container, or
\* two containers of which the first is primary
TbContainerLists ==
    {<<>>} \cup {[i \in 1..2 |-> TranslatorContainer(i = 1, 1, mf)] : mf \in 1..MaxFailures}

\* the TranslationResult the engine produces for a request
ResultOf(req) == [request |-> req]

\* results.append(...) of line 121
CollectResult_Prepend(results, res) == <<res>> \o results

CollectResult(results, res) == Append(results, res)

\* translate_text (line 111): element 0 of the batch result
translate_text(batch_results) == batch_results[1]

\* translate_batch(reqs) is entered: line 119 and the loop head of line 120
TranslateBatch ==
    /\ tb_pc = "idle"
    /\ pc = "idle"
    /\ svc_pc = "idle"
    /\ now <= MaxTime
    /\ \E reqs \in TbRequestLists :
          /\ tb_requests' = reqs
          /\ tb_results' = <<>>
          /\ IF reqs = <<>>
             THEN /\ tb_pc' = "returned"
                  /\ tb_outcome' = [NoBatchOutcome EXCEPT !.kind = "results"]
                  /\ UNCHANGED transVars
             ELSE /\ tb_pc' = "loop"
                  /\ tb_outcome' = NoBatchOutcome
                  /\ FailoverEnter(now)
                  /\ UNCHANGED now
    /\ UNCHANGED <<svcVars, batchVars, blkVars, limVars, engVars, moreVars>>

\* _translate_with_failover(req) of line 121 has returned or raised
TranslateBatchStep ==
    /\ tb_pc = "loop"
    /\ pc \in {"returned", "raised"}
    /\ IF pc = "raised"
       THEN /\ tb_pc' = "raised"
            /\ tb_outcome' = [kind |-> outcome.kind, msg |-> outcome.msg,
                              cause |-> outcome.cause, results |-> <<>>]
            /\ tb_results' = <<>>
            /\ FailoverLeave
            /\ UNCHANGED now
       ELSE LET req == tb_requests[Len(tb_results) + 1]
                results == CollectResult(tb_results, ResultOf(req))
            IN  IF Len(results) >= Len(tb_requests)
                THEN /\ tb_pc' = "returned"
                     /\ tb_outcome' = [NoBatchOutcome EXCEPT !.kind = "results",
                                                            !.results = results]
                     /\ tb_results' = <<>>
                     /\ FailoverLeave
                     /\ UNCHANGED now
                ELSE /\ tb_results' = results
                     /\ FailoverEnter(now)
                     /\ UNCHANGED <<tb_pc, tb_outcome, now>>
    /\ UNCHANGED <<tb_requests, svcVars, batchVars, blkVars, limVars, engVars, moreVars>>

\* the caller of translate_batch has received the list or the exception
TranslateBatchDone ==
    /\ tb_pc \in {"returned", "raised"}
    /\ tb_pc' = "idle"
    /\ tb_requests' = <<>>
    /\ tb_results' = <<>>
    /\ tb_outcome' = NoBatchOutcome
    /\ UNCHANGED <<transVars, svcVars, batchVars, blkVars, limVars, engVars, moreVars>>

\* an engine call made on behalf of translate_batch
BatchEngineCall ==
    /\ tb_pc = "loop"
    /\ \E res \in EngineOutcomes : FailoverAttempt(res)
    /\ UNCHANGED <<svcVars, batchVars, tbVars, blkVars, limVars, engVars, moreVars>>

(* ------------- specification: the default translate_batch -------------- *)
InitTbSpec ==
    /\ InitTranslatorWith(TbContainerLists, {600})
    /\ InitService
    /\ InitBatch
    /\ InitExt

NextTranslateBatch ==
    TranslateBatch \/ BatchEngineCall \/ TranslateBatchStep \/ TranslateBatchDone \/ Tick

SpecTranslateBatch == InitTbSpec /\ [][NextTranslateBatch]_vars

(* ------------------ TranslationService.translate_blocks ---------------- *)
\* a Python text value: None or a string, the string as its characters
NoneText == [is_none |-> TRUE, chars |-> <<>>]
Str(chars) == [is_none |-> FALSE, chars |-> chars]

\* `block.original_text or ""`
OrEmpty(t) == IF t.is_none THEN <<>> ELSE t.chars

WhitespaceChars == {" "}

RECURSIVE lstrip(_)
lstrip(cs) ==
    IF cs # <<>> /\ Head(cs) \in WhitespaceChars THEN lstrip(Tail(cs)) ELSE cs

RECURSIVE rstrip(_)
rstrip(cs) ==
    IF cs # <<>> /\ cs[Len(cs)] \in WhitespaceChars
    THEN rstrip(SubSeq(cs, 1, Len(cs) - 1))
    ELSE cs

strip(cs) == rstrip(lstrip(cs))

\* line 195: `not text.strip()`
IsSkipped_EmptyOnly(text) == text = <<>>

IsSkipped(text) == strip(text) = <<>>

\* values of block.translated_text
Untranslated == [kind |-> "unset", request |-> 0]
EmptyTranslation == [kind |-> "empty", request |-> 0]
Translation(res) == [kind |-> "result", request |-> res.request]

Block(text) == [original_text |-> text, translated_text |-> Untranslated]

\* lines 192-209: the block index of every request, in block order
RECURSIVE BuildPairs(_, _, _)
BuildPairs(bs, i, pairs) ==
    IF i > Len(bs)
    THEN pairs
    ELSE BuildPairs(bs, i + 1,
                    IF IsSkipped(OrEmpty(bs[i].original_text))
                    THEN pairs
                    ELSE Append(pairs, i))

\* the loop of lines 193-197 without line 196
MarkSkipped_Untouched(bs) == bs

\* line 196: skipped blocks get translated_text = ""
MarkSkipped(bs) ==
    [i \in 1..Len(bs) |->
        IF IsSkipped(OrEmpty(bs[i].original_text))
        THEN [bs[i] EXCEPT !.translated_text = EmptyTranslation]
        ELSE bs[i]]

\* line 223
CountsMatch(results, pairs) == Len(results) = Len(pairs)

UnexpectedCountError ==
    [kind |-> "TranslationError", msg |-> "Translator returned unexpected number of results",
     cause |-> "none"]

\* lines 226-228: zip(request_pairs, all_results)
AssignResults(bs, pairs, results) ==
    [i \in 1..Len(bs) |->
        IF \E k \in 1..Len(pairs) : pairs[k] = i
        THEN LET k == CHOOSE k \in 1..Len(pairs) : pairs[k] = i
             IN  [bs[i] EXCEPT !.translated_text = Translation(results[k])]
        ELSE bs[i]]

\* lines 226-228 when the results of the requests in `empty` hold an empty
\* translated_text: `fixed` is "" for them
AssignFixed(bs, pairs, results, empty) ==
    LET assigned == AssignResults(bs, pairs, results)
    IN  [i \in 1..Len(bs) |->
            IF \E k \in empty : k <= Len(pairs) /\ pairs[k] = i
            THEN [assigned[i] EXCEPT !.translated_text = EmptyTranslation]
            ELSE assigned[i]]

\* what translator.translate_batch(b) can do when the translator overrides
\* translate_batch: return the results of the batch, one result too few or
\* one too many, or raise
BatchOutcomes(b) ==
    LET proper == [k \in 1..Len(b) |-> ResultOf(b[k])]
    IN  {[kind |-> "results", msg |-> "none", results |-> rs] :
             rs \in {proper, SubSeq(proper, 1, Len(b) - 1), Append(proper, ResultOf(0))}}
        \cup {[kind |-> k, msg |-> "e1", results |-> <<>>] :
                 k \in {"LimitedModeError", "TranslationError"}}

\* translate_blocks up to the first translate_batch call (lines 192-219)
TranslateBlocksBody ==
    /\ blk_pc = "idle"
    /\ now <= MaxTime
    /\ LET pairs == BuildPairs(blocks, 1, <<>>)
           reqs == [k \in 1..Len(pairs) |-> Len(OrEmpty(blocks[pairs[k]].original_text))]
           bs == _split_into_batches(reqs, capabilities)
       IN  /\ blocks' = MarkSkipped(blocks)
           /\ request_pairs' = pairs
           /\ requests' = reqs
           /\ all_results' = <<>>
           /\ IF reqs = <<>>
              THEN /\ blk_pc' = "done"
                   /\ blk_outcome' = [kind |-> "returned", msg |-> "none", cause |-> "none"]
                   /\ UNCHANGED <<batches, batch_idx, tb_log, fn_calls>>
              ELSE /\ blk_pc' = "called"
                   /\ batches' = bs
                   /\ batch_idx' = 1
                   /\ tb_log' = <<bs[1]>>
                   /\ fn_calls' = 1
                   /\ UNCHANGED blk_outcome
    /\ UNCHANGED <<capabilities, batch_pc, mismatch, transVars, tbVars, limVars, engVars>>
    /\ UNCHANGED <<svc_pc, svc_outcome, backoff, callback_set, cb_calls, sleeps>>

\* the call as far as the blocks and the batches go
TranslateBlocks == TranslateBlocksBody /\ UNCHANGED moreVars

\* translator.translate_batch(batch) has ended: the wrapper (lines 291-303),
\* then lines 221-232
BlocksBatchDoneWith(empty) ==
    /\ blk_pc = "called"
    /\ \E out \in BatchOutcomes(batches[batch_idx]) :
         CASE out.kind = "results" ->
                LET results == all_results \o out.results
                IN  /\ mismatch' = (mismatch \/ Len(out.results) # Len(batches[batch_idx]))
                    /\ all_results' = results
                    /\ IF batch_idx < Len(batches)
                       THEN /\ batch_idx' = batch_idx + 1
                            /\ tb_log' = Append(tb_log, batches[batch_idx + 1])
                            /\ fn_calls' = 1
                            /\ UNCHANGED <<blk_pc, blocks, blk_outcome>>
                       ELSE /\ blk_pc' = "done"
                            /\ IF CountsMatch(results, request_pairs)
                               THEN /\ blocks' = AssignFixed(blocks, request_pairs, results,
                                                             empty)
                                    /\ blk_outcome' = [kind |-> "returned", msg |-> "none",
                                                       cause |-> "none"]
                               ELSE /\ blk_outcome' = UnexpectedCountError
                                    /\ UNCHANGED blocks
                            /\ UNCHANGED <<batch_idx, tb_log, fn_calls>>
                    /\ UNCHANGED <<now, backoff, cb_calls, sleeps>>
           [] out.kind = "LimitedModeError" ->
                IF OnLimitedMode(fn_calls) = "retry"
                THEN LET st == SlowModeOnRetry(backoff, now)
                         wait_for == RetryWait(st)
                     IN  /\ backoff' = st
                         /\ cb_calls' = IF ShouldNotify(callback_set, backoff.slow_mode)
                                        THEN cb_calls + 1
                                        ELSE cb_calls
                         /\ sleeps' = Append(sleeps, wait_for)
                         /\ now' = now + wait_for
                         /\ fn_calls' = fn_calls + 1
                         /\ tb_log' = Append(tb_log, batches[batch_idx])
                         /\ UNCHANGED <<blk_pc, blocks, all_results, batch_idx, mismatch,
                                        blk_outcome>>
                ELSE /\ blk_pc' = "done"
                     /\ blk_outcome' = SecondFailureError(out)
                     /\ UNCHANGED <<blocks, all_results, batch_idx, tb_log, mismatch, now,
                                    backoff, cb_calls, sleeps, fn_calls>>
           [] out.kind = "TranslationError" ->
                /\ blk_pc' = "done"
                /\ blk_outcome' = [kind |-> out.kind, msg |-> out.msg, cause |-> "none"]
                /\ UNCHANGED <<blocks, all_results, batch_idx, tb_log, mismatch, now,
                               backoff, cb_calls, sleeps, fn_calls>>
    /\ UNCHANGED <<request_pairs, requests, capabilities, batches, batch_pc>>
    /\ UNCHANGED <<containers, attempt_delay_ms, pc, container, attempts, last_error,
                   outcome, n_calls, last_call, restored>>
    /\ UNCHANGED <<svc_pc, svc_outcome, callback_set, tbVars, limVars, engVars>>

\* the call as far as the blocks and the batches go, every result holding a
\* translation
BlocksBatchDone == BlocksBatchDoneWith({}) /\ UNCHANGED moreVars

(* ------------------- specification: translate_blocks ------------------- *)
BlockTexts == {NoneText, Str(<<>>), Str(<<" ", " ">>), Str(<<" ", "a">>)}

BlockLists == UNION {[1..n -> {Block(t) : t \in BlockTexts}] : n \in 0..MaxBlocks}

BlockCapabilities ==
    [supports_batch : BOOLEAN, max_batch_size : {1, 2}, max_chars_per_request : {NoLimit}]

InitBlocksSpec ==
    /\ InitTranslatorWith({<<>>}, {600})
    /\ InitService
    /\ requests = <<>>
    /\ capabilities \in BlockCapabilities
    /\ batches = <<>>
    /\ batch_pc = "input"
    /\ InitTranslateBatch
    /\ InitBlocksWith(BlockLists)
    /\ InitLimiter
    /\ InitEngine
    /\ InitMore

NextBlocks == SetRateLimitCallback \/ TranslateBlocks \/ BlocksBatchDone

SpecBlocks == InitBlocksSpec /\ [][NextBlocks]_vars

(* ------------------------------ RateLimiter ---------------------------- *)
SlowClearAfterSec == 300    \* line 39
WindowSec == 60             \* lines 51 and 55
FailurePenaltyStepMs == 1000    \* line 130
FailurePenaltyCapMs == 10000    \* line 130

\* line 33
TooLong_Never(text_length, c) == FALSE

TooLong(text_length, c) == text_length > c.max_chars_per_request

\* line 39
ClearDue_AtLimit(t, last_error_ts) == t - last_error_ts >= SecToTicks(SlowClearAfterSec)

ClearDue(t, last_error_ts) == t - last_error_ts > SecToTicks(SlowClearAfterSec)

\* lines 62-64: the sleep that completes min_interval_sec since the last call
IntervalSleep_None(t, last_ts, c) == 0

IntervalSleep(t, last_ts, c) ==
    LET since_last == t - last_ts
    IN  IF since_last < MsToTicks(c.min_interval_sec)
        THEN MsToTicks(c.min_interval_sec) - since_last
        ELSE 0

\* lines 40-43
ClearSlowMode(bo) ==
    [bo EXCEPT !.slow_mode = FALSE, !.penalty_delay_sec = 0, !.slow_since = 0,
               !.notified = FALSE]

\* lines 50-60 without "self._window_calls = 0" of line 60
WindowCheck_NoBudgetReset(lim, c, t) ==
    IF c.max_calls_per_min > 0
    THEN IF lim.window_start_ts <= 0 \/ t - lim.window_start_ts >= SecToTicks(WindowSec)
         THEN [window_start_ts |-> t, window_calls |-> 0, slept |-> 0]
         ELSE IF lim.window_calls >= c.max_calls_per_min
              THEN LET wait_for == Max(0, SecToTicks(WindowSec) - (t - lim.window_start_ts))
                   IN  [window_start_ts |-> t + wait_for, window_calls |-> lim.window_calls,
                        slept |-> wait_for]
              ELSE [window_start_ts |-> lim.window_start_ts,
                    window_calls |-> lim.window_calls, slept |-> 0]
    ELSE [window_start_ts |-> lim.window_start_ts, window_calls |-> lim.window_calls,
          slept |-> 0]

\* lines 50-60: the limiter's window after the budget check, and the sleep
\* the check made
WindowCheck(lim, c, t) ==
    IF c.max_calls_per_min > 0
    THEN IF lim.window_start_ts <= 0 \/ t - lim.window_start_ts >= SecToTicks(WindowSec)
         THEN [window_start_ts |-> t, window_calls |-> 0, slept |-> 0]
         ELSE IF lim.window_calls >= c.max_calls_per_min
              THEN LET wait_for == Max(0, SecToTicks(WindowSec) - (t - lim.window_start_ts))
                   IN  [window_start_ts |-> t + wait_for, window_calls |-> 0,
                        slept |-> wait_for]
              ELSE [window_start_ts |-> lim.window_start_ts,
                    window_calls |-> lim.window_calls, slept |-> 0]
    ELSE [window_start_ts |-> lim.window_start_ts, window_calls |-> lim.window_calls,
          slept |-> 0]

\* RateLimiter.wait_or_raise(text_length, backoff) called at time t: the
\* limiter and the backoff state after it, the time it ends at, and how it
\* ended ("ValueError", "fast" or "slow")
wait_or_raise(lim, c, bo, text_length, t) ==
    IF TooLong(text_length, c)
    THEN [lim |-> lim, backoff |-> bo, now |-> t, kind |-> "ValueError"]
    ELSE LET expired == /\ bo.slow_mode
                        /\ bo.last_error_ts # 0
                        /\ ClearDue(t, bo.last_error_ts)
             bo1 == IF expired THEN ClearSlowMode(bo) ELSE bo
             slow_mode == bo.slow_mode /\ ~expired
         IN  IF ~slow_mode
             THEN [lim |-> [lim EXCEPT !.last_call_ts = t], backoff |-> bo1, now |-> t,
                   kind |-> "fast"]
             ELSE LET w == WindowCheck(lim, c, t)
                      t1 == t + w.slept
                      t2 == t1 + IntervalSleep(t1, lim.last_call_ts, c)
                      t3 == t2 + (IF bo1.penalty_delay_sec > 0
                                  THEN MsToTicks(bo1.penalty_delay_sec)
                                  ELSE 0)
                  IN  [lim |-> [last_call_ts |-> t3,
                                window_start_ts |-> w.window_start_ts,
                                window_calls |-> w.window_calls + 1],
                       backoff |-> bo1, now |-> t3, kind |-> "slow"]

\* line 127
\* status_code is None
NoStatusCode == 0

\* str.lower() on ASCII letters
UpperCase == <<"A", "B", "C", "D", "E", "F", "G", "H", "I", "J", "K", "L", "M",
               "N", "O", "P", "Q", "R", "S", "T", "U", "V", "W", "X", "Y", "Z">>
LowerCase == <<"a", "b", "c", "d", "e", "f", "g", "h", "i", "j", "k", "l", "m",
               "n", "o", "p", "q", "r", "s", "t", "u", "v", "w", "x", "y", "z">>

lower_char(c) ==
    IF \E i \in DOMAIN UpperCase : UpperCase[i] = c
    THEN LowerCase[CHOOSE i \in DOMAIN UpperCase : UpperCase[i] = c]
    ELSE c

lower(cs) == [i \in 1..Len(cs) |-> lower_char(cs[i])]

\* `sub in cs` for strings
Contains(sub, cs) ==
    \E i \in 0..(Len(cs) - Len(sub)) : SubSeq(cs, i + 1, i + Len(sub)) = sub

RateLimitNeedle == <<"r", "a", "t", "e", " ", "l", "i", "m", "i", "t">>

\* line 127; a message is NoneText or Str(chars)
IsRateLimitFailure_Only429(status_code, message) ==
    \/ status_code = 429
    \/ /\ ~message.is_none
       /\ message.chars # <<>>
       /\ Contains(RateLimitNeedle, lower(message.chars))

IsRateLimitFailure(status_code, message) ==
    \/ status_code \in {429, 403}
    \/ /\ ~message.is_none
       /\ message.chars # <<>>
       /\ Contains(RateLimitNeedle, lower(message.chars))

\* line 130 without the min(..., 10.0)
GenericPenalty_Uncapped(penalty) == penalty + FailurePenaltyStepMs

\* line 130: min(state.penalty_delay_sec + 1.0, 10.0)
GenericPenalty(penalty) == Min(penalty + FailurePenaltyStepMs, FailurePenaltyCapMs)

\* register_backoff_failure(engine_id, status_code, message) at time t
register_backoff_failure(bo, status_code, message, t) ==
    IF IsRateLimitFailure(status_code, message)
    THEN activate_slow_mode(bo, t)
    ELSE [bo EXCEPT !.penalty_delay_sec = GenericPenalty(bo.penalty_delay_sec),
                    !.last_error_ts = t]

\* line 119
NoticeDue_WhileSlow(bo) == bo.slow_mode

NoticeDue(bo) == bo.slow_mode /\ ~bo.notified

\* consume_slow_mode_notice: the state after the call and the value returned
consume_slow_mode_notice(bo) ==
    IF NoticeDue(bo)
    THEN [backoff |-> [bo EXCEPT !.notified = TRUE], ret |-> TRUE]
    ELSE [backoff |-> bo, ret |-> FALSE]

Limiter == [last_call_ts |-> last_call_ts, window_start_ts |-> window_start_ts,
            window_calls |-> window_calls]

\* the latest max_calls_per_min + 1 return times of slow-mode calls
Admit(calls, t, c) ==
    LET h == Append(calls, t)
        keep == c.max_calls_per_min + 1
    IN  IF Len(h) > keep THEN SubSeq(h, Len(h) - keep + 1, Len(h)) ELSE h

\* pending_notice after the backoff state went from bo to bo1
Pending(pending, bo, bo1) ==
    IF ~bo.slow_mode /\ bo1.slow_mode THEN TRUE
    ELSE IF ~bo1.slow_mode THEN FALSE
    ELSE pending

OtherThanLimiter ==
    <<containers, attempt_delay_ms, pc, container, attempts, last_error, outcome,
      n_calls, last_call, restored, svc_pc, fn_calls, svc_outcome, callback_set,
      cb_calls, sleeps, batchVars, tbVars, blkVars, engVars, moreVars>>

\* limiter.wait_or_raise(text_length, backoff)
DoWaitOrRaise(text_length) ==
    LET r == wait_or_raise(Limiter, cfg, backoff, text_length, now)
    IN  /\ last_call_ts' = r.lim.last_call_ts
        /\ window_start_ts' = r.lim.window_start_ts
        /\ window_calls' = r.lim.window_calls
        /\ backoff' = r.backoff
        /\ now' = r.now
        /\ lim_op' = [name |-> "wait_or_raise", arg |-> text_length, ret |-> r.kind,
                      flip |-> ~lim_op.flip, msg |-> NoneText]
        /\ pending_notice' = Pending(pending_notice, backoff, r.backoff)
        /\ admits' = IF r.kind = "slow" THEN Admit(admits, r.now, cfg) ELSE admits
        /\ UNCHANGED cfg

DoActivateSlowMode ==
    LET st == activate_slow_mode(backoff, now)
    IN  /\ backoff' = st
        /\ lim_op' = [name |-> "activate_slow_mode", arg |-> 0, ret |-> "none",
                      flip |-> ~lim_op.flip, msg |-> NoneText]
        /\ pending_notice' = Pending(pending_notice, backoff, st)
        /\ UNCHANGED <<cfg, last_call_ts, window_start_ts, window_calls, admits, now>>

DoRegisterBackoffFailure(status_code, message) ==
    LET st == register_backoff_failure(backoff, status_code, message, now)
    IN  /\ backoff' = st
        /\ lim_op' = [name |-> "register_backoff_failure", arg |-> status_code, ret |-> "none",
                      flip |-> ~lim_op.flip, msg |-> message]
        /\ pending_notice' = Pending(pending_notice, backoff, st)
        /\ UNCHANGED <<cfg, last_call_ts, window_start_ts, window_calls, admits, now>>

DoConsumeSlowModeNotice ==
    LET r == consume_slow_mode_notice(backoff)
    IN  /\ backoff' = r.backoff
        /\ lim_op' = [name |-> "consume_slow_mode_notice", arg |-> 0, ret |-> r.ret,
                      flip |-> ~lim_op.flip, msg |-> NoneText]
        /\ pending_notice' = (pending_notice /\ ~r.ret)
        /\ UNCHANGED <<cfg, last_call_ts, window_start_ts, window_calls, admits, now>>

\* time passes between two operations
DoElapse(d) ==
    /\ now' = now + d
    /\ UNCHANGED <<backoff, cfg, last_call_ts, window_start_ts, window_calls, lim_op,
                   pending_notice, admits>>

(* ---------------- specification: the rate_limiter module --------------- *)
TextLengthChoices == {100, 801}
StatusCodes == {429, 403, 500, NoStatusCode}
Messages == {NoneText,
             Str(<<"R", "a", "t", "e", " ", "L", "I", "M", "I", "T", "!">>),
             Str(<<"r", "a", "t", "e", "l", "i", "m", "i", "t">>)}
ClockJumps == {1, SecToTicks(30), SecToTicks(300)}

\* one more operation of a behaviour of at most MaxCounterOps operations
CountCounterOp == lim_ops < MaxCounterOps /\ lim_ops' = lim_ops + 1

\* one more operation of a behaviour of at most MaxOps operations
CountOp == lim_ops < MaxOps /\ lim_ops' = lim_ops + 1

WaitOrRaise ==
    /\ CountOp
    /\ \E n \in TextLengthChoices : DoWaitOrRaise(n)
    /\ UNCHANGED OtherThanLimiter

ActivateSlowMode ==
    /\ CountOp
    /\ DoActivateSlowMode
    /\ UNCHANGED OtherThanLimiter

RegisterBackoffFailure ==
    /\ CountOp
    /\ \E sc \in {429, 500} : DoRegisterBackoffFailure(sc, NoneText)
    /\ UNCHANGED OtherThanLimiter

ConsumeSlowModeNotice ==
    /\ CountOp
    /\ DoConsumeSlowModeNotice
    /\ UNCHANGED OtherThanLimiter

Elapse ==
    /\ CountOp
    /\ \E d \in ClockJumps : DoElapse(d)
    /\ UNCHANGED OtherThanLimiter

InitLimiterSpec ==
    /\ InitTranslatorWith({<<>>}, {600})
    /\ InitService
    /\ InitBatch
    /\ InitTranslateBatch
    /\ InitBlocks
    /\ InitLimiterWith({"deepl", "google_translate", "other"})
    /\ InitEngine
    /\ InitMore

NextLimiter ==
    WaitOrRaise \/ ActivateSlowMode \/ RegisterBackoffFailure \/ ConsumeSlowModeNotice
    \/ Elapse

SpecLimiter == InitLimiterSpec /\ [][NextLimiter]_vars

(* ----------------------------- ContextManager -------------------------- *)
\* Python's xs[-k:] for any integer k
SliceLast(xs, k) ==
    LET start == IF k > 0 THEN Max(Len(xs) - k, 0)
                 ELSE Min(0 - k, Len(xs))
    IN  SubSeq(xs, start + 1, Len(xs))

\* add_segment: lines 31-33, on the list and the capacity
add_segment(hist, cap, entry) ==
    LET appended == Append(hist, entry)
    IN  IF Len(appended) > cap THEN SliceLast(appended, cap) ELSE appended

\* get_recent_context: line 40; the slice and .copy() make a new list
get_recent_context(hist, limit) == SliceLast(hist, limit)

OtherThanContext ==
    <<transVars, svcVars, batchVars, tbVars, blkVars, limVars, engVars, frontVars,
      glossVars, regVars, pageVars>>

AddSegment ==
    /\ n_added < MaxAdds
    /\ n_added' = n_added + 1
    /\ n_since' = n_since + 1
    /\ history' = add_segment(history, max_length, n_added + 1)
    /\ ctx_op' = [name |-> "add_segment", arg |-> n_added + 1, ret |-> <<>>]
    /\ UNCHANGED <<max_length, snapshot, OtherThanContext>>

GetRecentContext ==
    /\ \E limit \in 0..MaxLimit :
           LET got == get_recent_context(history, limit)
           IN  /\ ctx_op' = [name |-> "get_recent_context", arg |-> limit, ret |-> got]
               /\ snapshot' = got
    /\ UNCHANGED <<history, max_length, n_added, n_since, OtherThanContext>>

\* the caller appends to, or removes from, the list it was given
MutateSnapshot ==
    /\ ctx_op.name = "get_recent_context"
    /\ \/ snapshot' = Append(snapshot, 0)
       \/ snapshot # <<>> /\ snapshot' = Tail(snapshot)
    /\ ctx_op' = [name |-> "caller", arg |-> 0, ret |-> <<>>]
    /\ UNCHANGED <<history, max_length, n_added, n_since, OtherThanContext>>

Clear ==
    /\ history' = <<>>
    /\ n_since' = 0
    /\ ctx_op' = [name |-> "clear", arg |-> 0, ret |-> <<>>]
    /\ UNCHANGED <<max_length, n_added, snapshot, OtherThanContext>>

(* ------------------- specification: ContextManager --------------------- *)
InitContextSpec ==
    /\ InitServiceTranslator
    /\ InitService
    /\ InitBatch
    /\ InitTranslateBatch
    /\ InitBlocks
    /\ InitLimiter
    /\ InitEngine
    /\ InitContextWith(0..MaxCapacity)
    /\ InitFront
    /\ InitGlossary
    /\ InitPage
    /\ InitRegistry

NextContext == AddSegment \/ GetRecentContext \/ MutateSnapshot \/ Clear

SpecContext == InitContextSpec /\ [][NextContext]_vars

(* ------------- TranslationService: translators and knowledge ---------- *)
\* core/engines_registry.py lines 242-251
ENGINE_ALIASES == [yandex |-> "yandex_translate", openai |-> "openai_translate",
                   marianmt |-> "marian_m2m_nllb"]

normalize_engine_id(engine_id) ==
    IF engine_id \in DOMAIN ENGINE_ALIASES THEN ENGINE_ALIASES[engine_id] ELSE engine_id

normalize_translator_id(engine_id) == normalize_engine_id(engine_id)

\* the ids of TRANSLATOR_ENGINES, which are the keys of registry._ENTRIES
RegisteredTranslators ==
    {"deepl", "google_translate", "yandex_translate", "azure_translate",
     "openai_translate", "argos", "marian_m2m_nllb"}

\* engine_state: None, or a dict given as the set of its items
NoSettings == [is_none |-> TRUE, items |-> {}]
Dict(items) == [is_none |-> FALSE, items |-> items]

\* `engine_state or {}`
OrEmptyDict(engine_state) == engine_state.items

\* _state_cache_key, lines 30-33: the sorted tuple of the items stands for
\* the set of items
_state_cache_key(engine_id, engine_state) ==
    <<normalize_translator_id(engine_id), OrEmptyDict(engine_state)>>

\* line 242: the cache after a translator has been created
StoreTranslator_KeepOthers(cache, key, inst) ==
    cache \cup {[key |-> key, inst |-> inst]}

StoreTranslator(cache, key, inst) == {[key |-> key, inst |-> inst]}

\* _get_translator, lines 235-243, with create_translator (registry.py 134-146)
_get_translator(cache, created, engine_id, engine_state) ==
    LET cache_key == _state_cache_key(engine_id, engine_state)
        hits == {e \in cache : e.key = cache_key}
    IN  IF hits # {}
        THEN [raised |-> FALSE, inst |-> (CHOOSE e \in hits : TRUE).inst,
              cache |-> cache, created |-> created]
        ELSE IF normalize_translator_id(engine_id) \notin RegisteredTranslators
        THEN [raised |-> TRUE, inst |-> 0, cache |-> cache, created |-> created]
        ELSE [raised |-> FALSE, inst |-> created + 1,
              cache |-> StoreTranslator(cache, cache_key, created + 1),
              created |-> created + 1]

\* _fallback_knowledge, lines 36-46
_fallback_knowledge == [kind |-> "fallback", characters |-> <<>>, terms |-> <<>>,
                        style |-> "None"]

\* what load_title_knowledge returns when it does not raise
LoadedKnowledge == [kind |-> "loaded", characters |-> <<"c1">>, terms |-> <<"t1">>,
                    style |-> "s1"]

\* lines 251-252: project.knowledge after the loader has raised
AfterFailedLoad_NotStored == NoKnowledge

AfterFailedLoad == _fallback_knowledge

\* _ensure_knowledge_loaded, lines 245-253; loader_raises is what the loader
\* would do if called
_ensure_knowledge_loaded(current, loader_raises) ==
    IF current.kind # "None"
    THEN [knowledge |-> current, loaded |-> 0]
    ELSE [knowledge |-> IF loader_raises THEN AfterFailedLoad ELSE LoadedKnowledge,
          loaded |-> 1]

\* lines 153 and 190: `translator.capabilities.context_window or 10`
FallbackContextLimit == 10

ContextLimit(window) == IF window # 0 THEN window ELSE FallbackContextLimit

\* line 141: `not text or text.strip() == ""`
IsBlankText_EmptyOnly(text) == text.is_none \/ text.chars = <<>>

IsBlankText(text) == text.is_none \/ text.chars = <<>> \/ strip(text.chars) = <<>>

\* add_segment for each of the given translations that is not empty
RECURSIVE AddSegments(_, _, _, _)
AddSegments(hist, cap, next, fixed) ==
    IF fixed = <<>> THEN [hist |-> hist, next |-> next]
    ELSE IF Head(fixed).chars = <<>>
    THEN AddSegments(hist, cap, next, Tail(fixed))
    ELSE AddSegments(add_segment(hist, cap, next + 1), cap, next + 1, Tail(fixed))

OtherThanFront ==
    <<transVars, svcVars, batchVars, tbVars, blkVars, limVars, engVars, max_length,
      ctx_op, snapshot, context_window, glossVars, regVars, pageVars>>

\* what the engine behind _run_with_rate_limit_retry gives: a result with
\* this translated text for every request, or an error
EngineError == [kind |-> "TranslationError", text |-> NoneText]
ResultsOf(translations) == [kind : {"result"}, text : translations]

\* TranslationService.translate_text, lines 130-169, with its arguments drawn
\* from the given sets
TranslateTextWith(texts, resets, engine_ids, settings, projects, results) ==
    /\ front_calls < MaxFrontCalls
    /\ front_calls' = front_calls + 1
    /\ \E text \in texts, reset \in resets, engine_id \in engine_ids,
          engine_state \in settings, project \in projects,
          loader_raises \in BOOLEAN, result \in results :
        LET op == [NoFrontOp EXCEPT !.name = "translate_text", !.text = text,
                                    !.reset = reset, !.engine_id = engine_id,
                                    !.engine_state = engine_state,
                                    !.project = project]
            cleared == IF reset THEN <<>> ELSE history
            got == _get_translator(translator_cache, n_created, engine_id, engine_state)
            kn == _ensure_knowledge_loaded(knowledge[project], loader_raises)
            context == get_recent_context(cleared, ContextLimit(context_window))
            resolved == [op EXCEPT !.resolved = TRUE, !.inst = got.inst,
                                   !.contexts = <<context>>, !.engine_called = TRUE,
                                   !.knowledge = kn.knowledge]
        IN  IF IsBlankText(text)
            THEN /\ front_op' = [op EXCEPT !.ret = [kind |-> "returned", text |-> text]]
                 /\ UNCHANGED <<history, n_added, n_since, translator_cache, n_created,
                                knowledge, loads>>
            ELSE /\ n_since' = IF reset THEN 0 ELSE n_since
                 /\ IF got.raised
                    THEN /\ front_op' = [op EXCEPT !.ret = [kind |-> "ValueError",
                                                           text |-> NoneText]]
                         /\ history' = cleared
                         /\ UNCHANGED <<n_added, translator_cache, n_created,
                                        knowledge, loads>>
                    ELSE /\ translator_cache' = got.cache
                         /\ n_created' = got.created
                         /\ knowledge' = [knowledge EXCEPT ![project] = kn.knowledge]
                         /\ loads' = [loads EXCEPT ![project] = @ + kn.loaded]
                         /\ IF result.kind = "result"
                            THEN LET added == AddSegments(cleared, max_length, n_added,
                                                          <<result.text>>)
                                 IN  /\ history' = added.hist
                                     /\ n_added' = added.next
                                     /\ front_op' = [resolved EXCEPT !.ret =
                                            [kind |-> "translated", text |-> result.text]]
                            ELSE /\ history' = cleared
                                 /\ n_added' = n_added
                                 /\ front_op' = [resolved EXCEPT !.ret = result]
    /\ UNCHANGED OtherThanFront

\* the non-blank texts of a list of blocks, in order
RECURSIVE RequestTexts(_)
RequestTexts(bs) ==
    IF bs = <<>> THEN <<>>
    ELSE IF IsSkipped(OrEmpty(Head(bs))) THEN RequestTexts(Tail(bs))
    ELSE <<Head(bs)>> \o RequestTexts(Tail(bs))

\* TranslationService.translate_blocks, lines 171-232, with its arguments
\* drawn from the given sets; every batch ends as `result` says
TranslateBlocksWith(block_lists, resets, engine_ids, settings, projects, results) ==
    /\ front_calls < MaxFrontCalls
    /\ front_calls' = front_calls + 1
    /\ \E bs \in block_lists, reset \in resets, engine_id \in engine_ids,
          engine_state \in settings, project \in projects,
          loader_raises \in BOOLEAN, result \in results :
        LET op == [NoFrontOp EXCEPT !.name = "translate_blocks",
                                    !.reset = reset, !.engine_id = engine_id,
                                    !.engine_state = engine_state,
                                    !.project = project]
            cleared == IF reset THEN <<>> ELSE history
            got == _get_translator(translator_cache, n_created, engine_id, engine_state)
            kn == _ensure_knowledge_loaded(knowledge[project], loader_raises)
            context == get_recent_context(cleared, ContextLimit(context_window))
            reqs == RequestTexts(bs)
            resolved == [op EXCEPT !.resolved = TRUE, !.inst = got.inst,
                                   !.contexts = [i \in 1..Len(reqs) |-> context],
                                   !.engine_called = (reqs # <<>>),
                                   !.knowledge = kn.knowledge]
        IN  /\ n_since' = IF reset THEN 0 ELSE n_since
            /\ IF got.raised
               THEN /\ front_op' = [op EXCEPT !.ret = [kind |-> "ValueError",
                                                      text |-> NoneText]]
                    /\ history' = cleared
                    /\ UNCHANGED <<n_added, translator_cache, n_created, knowledge, loads>>
               ELSE /\ translator_cache' = got.cache
                    /\ n_created' = got.created
                    /\ knowledge' = [knowledge EXCEPT ![project] = kn.knowledge]
                    /\ loads' = [loads EXCEPT ![project] = @ + kn.loaded]
                    /\ IF reqs = <<>> \/ result.kind = "result"
                       THEN LET added == AddSegments(cleared, max_length, n_added,
                                             [i \in 1..Len(reqs) |-> result.text])
                            IN  /\ history' = added.hist
                                /\ n_added' = added.next
                                /\ front_op' = [resolved EXCEPT !.ret =
                                       [kind |-> "blocks", text |-> NoneText]]
                       ELSE /\ history' = cleared
                            /\ n_added' = n_added
                            /\ front_op' = [resolved EXCEPT !.ret = result]
    /\ UNCHANGED OtherThanFront

\* block lists handed to translate_blocks
FrontBlockLists ==
    {<<Str(<<" ", "a">>)>>,
     <<NoneText, Str(<<" ", "a">>), Str(<<" ", "a">>)>>,
     <<Str(<<" ", " ">>)>>}

InitFrontSpecWith(windows) ==
    /\ InitTranslatorWith({<<>>}, {600})
    /\ InitService
    /\ InitBatch
    /\ InitTranslateBatch
    /\ InitBlocks
    /\ InitLimiter
    /\ InitEngine
    /\ InitContext
    /\ InitFrontWith(windows)
    /\ InitGlossary
    /\ InitPage
    /\ InitRegistry

(* ---------- specification: translate_text with blank texts ------------- *)
TranslateText_AnyText ==
    TranslateTextWith(BlockTexts, BOOLEAN, {"deepl"}, {NoSettings}, {"p1"},
                      ResultsOf({Str(<<"t">>)}) \cup {EngineError})

NextEmptyText == TranslateText_AnyText

SpecEmptyText == InitFrontSpecWith({DefaultContextWindow}) /\ [][NextEmptyText]_vars

(* ------------ specification: the service's translator cache ----------- *)
\* the engine ids and settings handed to the service
FrontEngineIds == {"yandex", "yandex_translate", "deepl", "unregistered"}
FrontSettings == {NoSettings, Dict({}), Dict({<<"api_key", "k1">>})}

TranslateText_AnyEngine ==
    TranslateTextWith({Str(<<>>), Str(<<" ", "a">>)}, {FALSE}, FrontEngineIds,
                      FrontSettings, {"p1"}, ResultsOf({Str(<<"t">>)}))

TranslateBlocks_AnyEngine ==
    TranslateBlocksWith({<<Str(<<" ", "a">>)>>}, {FALSE}, FrontEngineIds,
                        FrontSettings, {"p1"}, ResultsOf({Str(<<"t">>)}))

NextCache == TranslateText_AnyEngine \/ TranslateBlocks_AnyEngine

SpecCache == InitFrontSpecWith({DefaultContextWindow}) /\ [][NextCache]_vars

(* ------------- specification: loading the title knowledge ------------- *)
TranslateText_AnyProject ==
    TranslateTextWith({Str(<<>>), Str(<<" ", "a">>)}, {FALSE}, {"deepl"}, {NoSettings},
                      Projects, ResultsOf({Str(<<"t">>)}) \cup {EngineError})

TranslateBlocks_AnyProject ==
    TranslateBlocksWith({<<Str(<<" ", "a">>)>>, <<Str(<<" ", " ">>)>>}, {FALSE},
                        {"deepl"}, {NoSettings}, Projects,
                        ResultsOf({Str(<<"t">>)}) \cup {EngineError})

NextKnowledge == TranslateText_AnyProject \/ TranslateBlocks_AnyProject

SpecKnowledge == InitFrontSpecWith({DefaultContextWindow}) /\ [][NextKnowledge]_vars

(* ------------ specification: the context handed to requests ---------- *)
TranslateText_AnyWindow ==
    TranslateTextWith({Str(<<" ", "a">>)}, BOOLEAN, {"deepl"}, {NoSettings}, {"p1"},
                      ResultsOf({Str(<<>>), Str(<<"t">>)}) \cup {EngineError})

TranslateBlocks_AnyWindow ==
    TranslateBlocksWith(FrontBlockLists, BOOLEAN, {"deepl"}, {NoSettings}, {"p1"},
                        ResultsOf({Str(<<>>), Str(<<"t">>)}) \cup {EngineError})

NextWindow == TranslateText_AnyWindow \/ TranslateBlocks_AnyWindow

SpecWindow == InitFrontSpecWith(0..MaxContextWindow) /\ [][NextWindow]_vars

(* ------------------- translator/registry.py ---------------------------- *)
\* lines 128-131
get_translator_capabilities(objs, engine_id) ==
    LET normalized == normalize_translator_id(engine_id)
    IN  IF normalized \in DOMAIN _CAPABILITIES
        THEN objs[_CAPABILITIES[normalized]]
        ELSE _default_caps

\* a translator built on the very object of the registry entry
NewCapabilities_Shared(objs, ref) == [objects |-> objs, ref |-> ref]

\* line 145: `TranslatorCapabilities(**vars(entry.capabilities))`, a new
\* object holding the fields of the entry's object
NewCapabilities(objs, ref) ==
    [objects |-> Append(objs, objs[ref]), ref |-> Len(objs) + 1]

\* create_translator, lines 134-146; the builder hands caps to
\* Translator.__init__, which keeps the object (base.py line 105)
create_translator(objs, insts, engine_id) ==
    LET normalized == normalize_translator_id(engine_id)
    IN  IF normalized \notin DOMAIN _ENTRIES
        THEN [objects |-> objs, translators |-> insts,
              result |-> [kind |-> "ValueError", engine_id |-> engine_id, inst |-> 0]]
        ELSE LET caps == NewCapabilities(objs, _ENTRIES[normalized])
             IN  [objects |-> caps.objects,
                  translators |-> Append(insts, [engine_id |-> normalized,
                                                 capabilities |-> caps.ref]),
                  result |-> [kind |-> "returned", engine_id |-> engine_id,
                              inst |-> Len(insts) + 1]]

OtherThanRegistry ==
    <<transVars, svcVars, batchVars, tbVars, blkVars, limVars, engVars, ctxVars,
      frontVars, glossVars, pageVars>>

\* the ids create_translator is called with: a registered id, a legacy alias
\* of a registered id, and an id that is not registered
CreatedIds == {"deepl", "yandex", "unknown"}

CreateTranslator ==
    /\ Len(translators) < MaxTranslators
    /\ \E engine_id \in CreatedIds :
          LET r == create_translator(objects, translators, engine_id)
          IN  /\ objects' = r.objects
              /\ translators' = r.translators
              /\ create_result' = r.result
    /\ UNCHANGED OtherThanRegistry

\* the fields a holder of a translator assigns, and the values it assigns
MutatedFields == {"max_batch_size", "context_window"}
MutatedValues == {1}

\* `translator.capabilities.<field> = value` on one of the translators
MutateCapabilities ==
    /\ \E k \in 1..Len(translators), f \in MutatedFields, v \in MutatedValues :
          objects' = [objects EXCEPT ![translators[k].capabilities][f] = v]
    /\ UNCHANGED <<translators, create_result, OtherThanRegistry>>

(* ---------------- specification: the translator registry --------------- *)
NextRegistry == CreateTranslator \/ MutateCapabilities

SpecRegistry == InitSvc /\ [][NextRegistry]_vars

(* ------ _run_with_rate_limit_retry over the default translate_batch ---- *)
\* the results the requests before the failing one had got in the attempt
\* that raised
ResultsBeforeFailure(reqs, log) ==
    IF log = <<>> THEN <<>>
    ELSE [k \in 1..(log[Len(log)].request - 1) |-> ResultOf(reqs[k])]

\* a retry that keeps the results of the first attempt
RetryResults_Resume(previous) == previous

\* the retry is a new call of fn(): translate_batch starts over with
\* `results = []` (base.py line 119)
RetryResults(previous) == <<>>

\* the outcomes of an engine call under the wrapper
RetriedOutcomes ==
    {[kind |-> "ok", msg |-> "none"], [kind |-> "LimitedModeError", msg |-> "e1"],
     [kind |-> "TranslationError", msg |-> "e1"]}

\* the batches handed to the wrapper: two requests or more
RetriedBatches == UNION {[1..n -> {1}] : n \in 2..(MaxBatchLen + 1)}

\* service.py lines 217-219: the wrapper is entered with
\* fn = translator.translate_batch(batch), and fn() starts
RetriedBatch ==
    /\ svc_pc = "idle"
    /\ tb_pc = "idle"
    /\ pc = "idle"
    /\ now <= MaxTime
    /\ \E reqs \in RetriedBatches : tb_requests' = reqs
    /\ tb_results' = <<>>
    /\ tb_pc' = "loop"
    /\ tb_outcome' = NoBatchOutcome
    /\ svc_pc' = "called"
    /\ fn_calls' = 1
    /\ svc_outcome' = NoOutcome
    /\ cb_calls' = 0
    /\ sleeps' = <<>>
    /\ sent' = <<>>
    /\ FailoverEnter(now)
    /\ UNCHANGED <<now, backoff, callback_set, batchVars, blkVars, limVars, engVars,
                   ctxVars, frontVars, glossVars, regVars, page>>

\* an engine call made for the current request of the batch
RetriedEngineCall ==
    /\ tb_pc = "loop"
    /\ svc_pc = "called"
    /\ \E res \in RetriedOutcomes :
          /\ FailoverAttempt(res)
          /\ sent' = Append(sent, [attempt |-> fn_calls,
                                   request |-> Len(tb_results) + 1,
                                   kind |-> res.kind])
    /\ UNCHANGED <<svcVars, batchVars, tbVars, blkVars, limVars, engVars, ctxVars,
                   frontVars, glossVars, regVars, page>>

\* fn() = translate_batch(batch) has returned or raised: service.py lines
\* 292-303
RetriedBatchDone ==
    /\ svc_pc = "called"
    /\ tb_pc \in {"returned", "raised"}
    /\ IF tb_outcome.kind = "LimitedModeError" /\ OnLimitedMode(fn_calls) = "retry"
       THEN LET st == SlowModeOnRetry(backoff, now)
                wait_for == RetryWait(st)
            IN  /\ backoff' = st
                /\ cb_calls' = IF ShouldNotify(callback_set, backoff.slow_mode)
                               THEN cb_calls + 1
                               ELSE cb_calls
                /\ sleeps' = Append(sleeps, wait_for)
                /\ now' = now + wait_for
                /\ fn_calls' = fn_calls + 1
                /\ tb_results' = RetryResults(ResultsBeforeFailure(tb_requests, sent))
                /\ tb_pc' = "loop"
                /\ tb_outcome' = NoBatchOutcome
                /\ FailoverEnter(now + wait_for)
                /\ UNCHANGED <<svc_pc, svc_outcome, tb_requests>>
       ELSE /\ svc_pc' = "done"
            /\ svc_outcome' = IF tb_outcome.kind = "LimitedModeError"
                              THEN SecondFailureError(tb_outcome)
                              ELSE tb_outcome
            /\ tb_pc' = "idle"
            /\ UNCHANGED <<now, fn_calls, backoff, cb_calls, sleeps, tb_requests,
                           tb_results, tb_outcome, transVars>>
    /\ UNCHANGED <<callback_set, batchVars, blkVars, limVars, engVars, ctxVars, frontVars,
                   glossVars, regVars, pageVars>>

\* the caller of the wrapper has received the list or the exception
RetriedBatchReturn ==
    /\ svc_pc = "done"
    /\ svc_pc' = "idle"
    /\ fn_calls' = 0
    /\ svc_outcome' = NoOutcome
    /\ cb_calls' = 0
    /\ sleeps' = <<>>
    /\ tb_requests' = <<>>
    /\ tb_results' = <<>>
    /\ tb_outcome' = NoBatchOutcome
    /\ sent' = <<>>
    /\ UNCHANGED <<backoff, callback_set, tb_pc, transVars, batchVars, blkVars, limVars,
                   engVars, ctxVars, frontVars, glossVars, regVars, page>>

(* --------- specification: the wrapper retrying a whole batch ----------- *)
NextRetriedBatch ==
    \/ SetRateLimitCallback
    \/ RetriedBatch
    \/ RetriedEngineCall
    \/ TranslateBatchStep
    \/ RetriedBatchDone
    \/ RetriedBatchReturn

SpecRetriedBatch == InitSvc /\ [][NextRetriedBatch]_vars

(* --------- translate_blocks: the context and the history ------------- *)
\* an entry of the context history: the (original, translated) pair of block
\* `i` of the running call; block 0 stands for a pair of an earlier call
PageEntry(i) == [block |-> i]

\* a translated_text a block already holds when it is handed to the call
Previous == [kind |-> "previous", request |-> 0]

\* line 229 without the test: a pair for every request
KeepsPair_Always(k, empty) == TRUE

\* line 229: `if fixed:`
KeepsPair(k, empty) == k \notin empty

\* lines 226-230: add_segment for every request whose fixed translation is not
\* empty, in the order of request_pairs, from request k on
RECURSIVE PageSegments(_, _, _, _, _)
PageSegments(hist, cap, pairs, empty, k) ==
    IF k > Len(pairs) THEN hist
    ELSE PageSegments(IF KeepsPair(k, empty)
                      THEN add_segment(hist, cap, PageEntry(pairs[k]))
                      ELSE hist,
                      cap, pairs, empty, k + 1)

\* translate_blocks from its entry to the first translate_batch call: lines
\* 182-219; the engine will return an empty translation for the requests in
\* `empty`
PageTranslateBlocks ==
    /\ TranslateBlocksBody
    /\ \E reset \in BOOLEAN :
       \E empty \in {e \in SUBSET (1..Len(BuildPairs(blocks, 1, <<>>))) :
                          Cardinality(e) <= MaxEmptyResults} :
         LET cleared == IF reset THEN <<>> ELSE history
             context == get_recent_context(cleared, ContextLimit(context_window))
             n == Len(BuildPairs(blocks, 1, <<>>))
         IN  /\ history' = cleared
             /\ n_since' = IF reset THEN 0 ELSE n_since
             /\ page' = [NoPage EXCEPT !.call = "translate_blocks", !.reset = reset,
                                        !.blocks_before = blocks,
                                        !.history_before = history,
                                        !.contexts = [k \in 1..n |-> context],
                                        !.empty_results = empty]
    /\ UNCHANGED <<max_length, n_added, ctx_op, snapshot, sent, frontVars, glossVars, regVars>>

\* the pairs written as soon as a translate_batch call has ended
SegmentsDue_EveryBatch(returned) == TRUE

\* the loop of lines 226-230 comes after all batches and the count check: it
\* runs only in a call that returns
SegmentsDue(returned) == returned

\* a translate_batch call of translate_blocks has ended: lines 217-232
PageBatchDone ==
    /\ BlocksBatchDoneWith(page.empty_results)
    /\ IF SegmentsDue(blk_pc' = "done" /\ blk_outcome'.kind = "returned")
       THEN /\ history' = PageSegments(history, max_length, request_pairs,
                                       page.empty_results, 1)
            /\ n_added' = n_added + Len(request_pairs)
                             - Cardinality(page.empty_results)
       ELSE UNCHANGED <<history, n_added>>
    /\ UNCHANGED <<max_length, n_since, ctx_op, snapshot, page, sent, frontVars, glossVars, regVars>>

\* what _run_with_rate_limit_retry gives translate_text: a result with a
\* translation, a result with an empty translated_text, or an error
PageResults == {"translation", "empty", "error"}

\* translate_text as far as the history goes: lines 141-169
PageTranslateText ==
    /\ blk_pc = "idle"
    /\ front_calls < MaxPageTextCalls
    /\ front_calls' = front_calls + 1
    /\ \E text \in {Str(<<" ", " ">>), Str(<<" ", "a">>)}, reset \in BOOLEAN,
          result \in PageResults :
         LET cleared == IF reset THEN <<>> ELSE history
             context == get_recent_context(cleared, ContextLimit(context_window))
             op == [NoPage EXCEPT !.call = "translate_text", !.reset = reset,
                                  !.history_before = history, !.text = text]
         IN  IF IsBlankText(text)
             THEN /\ page' = op
                  /\ UNCHANGED <<history, n_added, n_since>>
             ELSE /\ page' = [op EXCEPT !.contexts = <<context>>, !.result = result]
                  /\ n_since' = IF reset THEN 0 ELSE n_since
                  /\ IF result = "translation"
                     THEN /\ history' = add_segment(cleared, max_length, PageEntry(0))
                          /\ n_added' = n_added + 1
                     ELSE /\ history' = cleared
                          /\ UNCHANGED n_added
    /\ UNCHANGED <<max_length, ctx_op, snapshot, translator_cache, n_created,
                   context_window, knowledge, loads, front_op, glossVars, regVars, sent>>
    /\ UNCHANGED <<transVars, svcVars, batchVars, tbVars, blkVars, limVars, engVars>>

(* ------ specification: translate_blocks with context and history ------- *)
\* the blocks handed to the call: an empty and a whitespace-only source
\* text, and a text to translate, without or with an earlier translation
PageBlocks ==
    {[original_text |-> Str(<<>>), translated_text |-> Untranslated],
     [original_text |-> Str(<<" ", " ">>), translated_text |-> Previous],
     [original_text |-> Str(<<" ", "a">>), translated_text |-> Untranslated],
     [original_text |-> Str(<<" ", "a">>), translated_text |-> Previous]}

PageBlockLists == UNION {[1..n -> PageBlocks] : n \in 0..MaxBlocks}

InitPageSpec ==
    /\ InitTranslatorWith({<<>>}, {600})
    /\ InitService
    /\ requests = <<>>
    /\ capabilities = [supports_batch |-> TRUE, max_batch_size |-> 2,
                       max_chars_per_request |-> NoLimit]
    /\ batches = <<>>
    /\ batch_pc = "input"
    /\ InitTranslateBatch
    /\ InitBlocksWith(PageBlockLists)
    /\ InitLimiter
    /\ InitEngine
    /\ InitContext
    /\ InitFront
    /\ InitGlossary
    /\ InitPage
    /\ InitRegistry

NextPage == PageTranslateText \/ PageTranslateBlocks \/ PageBatchDone

SpecPage == InitPageSpec /\ [][NextPage]_vars

(* ------------------- _apply_glossary_and_name_fixes -------------------- *)
\* str.replace(old, new) on sequences of characters: the occurrences of old
\* are taken from left to right without overlap; an empty old matches
\* before every character and at the end
RECURSIVE replace(_, _, _)
replace(text, old, new) ==
    IF old = <<>>
    THEN IF text = <<>> THEN new
         ELSE new \o <<Head(text)>> \o replace(Tail(text), old, new)
    ELSE IF Len(text) < Len(old) THEN text
    ELSE IF SubSeq(text, 1, Len(old)) = old
         THEN new \o replace(SubSeq(text, Len(old) + 1, Len(text)), old, new)
         ELSE <<Head(text)>> \o replace(Tail(text), old, new)

\* "if term.source and term.target" without the test of term.source
TermApplies_AnySource(term) == term.target # <<>>

\* "if term.source and term.target": service.py line 52
TermApplies(term) == term.source # <<>> /\ term.target # <<>>

\* the loop over knowledge.terms: service.py lines 51-53
RECURSIVE ApplyTerms(_, _)
ApplyTerms(result, terms) ==
    IF terms = <<>> THEN result
    ELSE ApplyTerms(IF TermApplies(Head(terms))
                    THEN replace(result, Head(terms).source, Head(terms).target)
                    ELSE result,
                    Tail(terms))

\* the loop over character.original_names: service.py lines 57-59
RECURSIVE ApplyNames(_, _, _)
ApplyNames(result, names, display_name) ==
    IF names = <<>> THEN result
    ELSE ApplyNames(IF Head(names) # <<>>
                    THEN replace(result, Head(names), display_name)
                    ELSE result,
                    Tail(names), display_name)

\* the loop over knowledge.characters: service.py lines 54-59
RECURSIVE ApplyCharacters(_, _)
ApplyCharacters(result, characters) ==
    IF characters = <<>> THEN result
    ELSE ApplyCharacters(IF Head(characters).display_name = <<>> THEN result
                         ELSE ApplyNames(result, Head(characters).original_names,
                                         Head(characters).display_name),
                         Tail(characters))

_apply_glossary_and_name_fixes(translated, kn) ==
    ApplyCharacters(ApplyTerms(translated, kn.terms), kn.characters)

OtherThanGlossary ==
    <<transVars, svcVars, batchVars, tbVars, blkVars, limVars, engVars, ctxVars,
      frontVars, pageVars, regVars>>

\* the translated text goes through the post-processing
ApplyGlossary ==
    /\ gloss_pc = "input"
    /\ gloss_once' = _apply_glossary_and_name_fixes(gloss_text, gloss_knowledge)
    /\ gloss_pc' = "once"
    /\ UNCHANGED <<gloss_text, gloss_knowledge, gloss_twice, OtherThanGlossary>>

\* the already-substituted text goes through it again, with the same knowledge
ApplyGlossaryAgain ==
    /\ gloss_pc = "once"
    /\ gloss_twice' = _apply_glossary_and_name_fixes(gloss_once, gloss_knowledge)
    /\ gloss_pc' = "twice"
    /\ UNCHANGED <<gloss_text, gloss_knowledge, gloss_once, OtherThanGlossary>>

(* ------------- specification: the glossary post-processing ------------- *)
GlossLetters == {"a", "b", "x"}

RECURSIVE SeqsUpTo(_, _)
SeqsUpTo(letters, n) ==
    IF n = 0 THEN {<<>>}
    ELSE LET shorter == SeqsUpTo(letters, n - 1)
         IN shorter \cup {<<c>> \o w : c \in letters, w \in {v \in shorter : Len(v) = n - 1}}

GlossTexts == SeqsUpTo(GlossLetters, MaxTextLen)

\* sources, targets and names: empty, one letter, and two letters
GlossStrings == {<<>>, <<"a">>, <<"b">>, <<"x">>, <<"a", "b">>}

\* one Term and one Character with one original name
GlossKnowledges ==
    {[terms |-> <<[source |-> s, target |-> t]>>,
      characters |-> <<[display_name |-> d, original_names |-> <<o>>]>>] :
         s \in GlossStrings, t \in GlossStrings, d \in GlossStrings, o \in GlossStrings}

InitGlossarySpec ==
    /\ InitServiceTranslator
    /\ InitService
    /\ InitBatch
    /\ InitTranslateBatch
    /\ InitBlocks
    /\ InitLimiter
    /\ InitEngine
    /\ InitContext
    /\ InitFront
    /\ InitGlossaryWith(GlossTexts, GlossKnowledges)
    /\ InitPage
    /\ InitRegistry

NextGlossary == ApplyGlossary \/ ApplyGlossaryAgain

SpecGlossary == InitGlossarySpec /\ [][NextGlossary]_vars

(* --------------- specification: the backoff state alone ---------------- *)
\* register_backoff_failure with every status code and message, between
\* activations and consumed notices
RegisterAnyFailure ==
    /\ lim_ops < MaxBackoffOps
    /\ lim_ops' = lim_ops + 1
    /\ \E sc \in StatusCodes, message \in Messages : DoRegisterBackoffFailure(sc, message)
    /\ UNCHANGED OtherThanLimiter

ActivateAnyTime ==
    /\ lim_ops < MaxBackoffOps
    /\ lim_ops' = lim_ops + 1
    /\ DoActivateSlowMode
    /\ UNCHANGED OtherThanLimiter

ConsumeAnyTime ==
    /\ lim_ops < MaxBackoffOps
    /\ lim_ops' = lim_ops + 1
    /\ DoConsumeSlowModeNotice
    /\ UNCHANGED OtherThanLimiter

NextBackoff == RegisterAnyFailure \/ ActivateAnyTime \/ ConsumeAnyTime

SpecBackoff == InitLimiterSpec /\ [][NextBackoff]_vars

(* ------------- specification: the penalty of a BackoffState ------------ *)
\* a failure that is a rate limit (429) or a generic degradation (500)
RegisterEitherFailure ==
    /\ lim_ops < MaxPenaltyOps
    /\ lim_ops' = lim_ops + 1
    /\ \E sc \in {429, 500} : DoRegisterBackoffFailure(sc, NoneText)
    /\ UNCHANGED OtherThanLimiter

WaitAnyTime ==
    /\ lim_ops < MaxPenaltyOps
    /\ lim_ops' = lim_ops + 1
    /\ DoWaitOrRaise(100)
    /\ UNCHANGED OtherThanLimiter

\* more than SlowClearAfterSec pass without an operation
ElapseLong ==
    /\ lim_ops < MaxPenaltyOps
    /\ lim_ops' = lim_ops + 1
    /\ DoElapse(SecToTicks(SlowClearAfterSec) + 1)
    /\ UNCHANGED OtherThanLimiter

ActivateEither ==
    /\ lim_ops < MaxPenaltyOps
    /\ lim_ops' = lim_ops + 1
    /\ DoActivateSlowMode
    /\ UNCHANGED OtherThanLimiter

NextPenalty == RegisterEitherFailure \/ ActivateEither \/ WaitAnyTime \/ ElapseLong

InitPenaltySpec ==
    /\ InitTranslatorWith({<<>>}, {600})
    /\ InitService
    /\ InitBatch
    /\ InitTranslateBatch
    /\ InitBlocks
    /\ InitLimiterWith({"deepl"})
    /\ InitEngine
    /\ InitMore

SpecPenalty == InitPenaltySpec /\ [][NextPenalty]_vars

(* ---------------- DeepLTranslator._translate_request ------------------- *)
\* the limited web mode of the engine: deepl.py lines 44-51

\* str(exc) of the MtApiError that translate_deepl_web raises; the error has
\* no status_code attribute
WebMessages == {Str(<<"H", "T", "T", "P", " ", "4", "2", "9">>),
                Str(<<"r", "a", "t", "e", " ", "l", "i", "m", "i", "t">>)}

\* what translate_deepl_web can do: return, or raise
WebOutcomes == {[kind |-> "ok", message |-> NoneText]}
               \cup [kind : {"raise"}, message : WebMessages]

\* lines 45-47: limiter.wait_or_raise(len(text), backoff)
DeeplWait ==
    LET r == wait_or_raise(Limiter, cfg, backoff, engine.text_length, now)
    IN  /\ pc = "attempt"
        /\ engine.pc = "start"
        /\ DoWaitOrRaise(engine.text_length)
        /\ engine' = [engine EXCEPT !.pc = IF r.kind = "ValueError" THEN "raise" ELSE "call",
                                    !.was_slow = r.backoff.slow_mode]
        /\ UNCHANGED <<containers, attempt_delay_ms, pc, container, attempts, last_error,
                       outcome, n_calls, last_call, restored, svc_pc, fn_calls,
                       svc_outcome, callback_set, cb_calls, sleeps, batchVars, tbVars,
                       blkVars, lim_ops, moreVars>>

\* lines 48-51 and the return: the web call, and how the engine call ends for
\* _translate_with_failover
DeeplCall ==
    /\ pc = "attempt"
    /\ engine.pc \in {"call", "raise"}
    /\ engine' = [engine EXCEPT !.pc = "start"]
    /\ IF engine.pc = "raise"
       THEN /\ FailoverAttempt([kind |-> "Exception", msg |-> "e1"])
            /\ UNCHANGED <<backoff, cfg, last_call_ts, window_start_ts, window_calls,
                           lim_op, pending_notice, admits>>
       ELSE \E web \in WebOutcomes :
                IF web.kind = "ok"
                THEN /\ FailoverAttempt([kind |-> "ok", msg |-> "none"])
                     /\ UNCHANGED <<backoff, cfg, last_call_ts, window_start_ts,
                                    window_calls, lim_op, pending_notice, admits>>
                ELSE /\ DoRegisterBackoffFailure(NoStatusCode, web.message)
                     /\ FailoverAttempt([kind |-> "LimitedModeError", msg |-> "e1"])
    /\ UNCHANGED <<svc_pc, fn_calls, svc_outcome, callback_set, cb_calls, sleeps,
                   batchVars, tbVars, blkVars, lim_ops, moreVars>>

(* --------- specification: the service over the limited DeepL mode ------- *)
\* TranslationService.translate_text with a non-blank text: the wrapper is
\* entered with fn = translator.translate_text(request)
LimitedTranslateText ==
    /\ svc_pc = "idle"
    /\ pc = "idle"
    /\ now <= SecToTicks(MaxLimitedSec)
    /\ svc_pc' = "called"
    /\ fn_calls' = 1
    /\ svc_outcome' = NoOutcome
    /\ cb_calls' = 0
    /\ sleeps' = <<>>
    /\ FailoverEnter(now)
    /\ \E n \in TextLengthChoices :
           engine' = [pc |-> "start", text_length |-> n, was_slow |-> backoff.slow_mode]
    /\ UNCHANGED <<now, backoff, callback_set, batchVars, tbVars, blkVars, limVars, moreVars>>

InitLimitedSpec == InitServiceTranslator /\ InitService /\ InitBatch /\ InitExt

NextLimited ==
    \/ SetRateLimitCallback
    \/ LimitedTranslateText
    \/ DeeplWait
    \/ DeeplCall
    \/ FnDone
    \/ RunWithRetryDone

SpecLimited == InitLimitedSpec /\ [][NextLimited]_vars

(* ------------- specification: a limiter pacing in slow mode ------------ *)
\* wait_or_raise is called for a text within the length limit
PacedCall ==
    /\ now <= SecToTicks(MaxBudgetSec)
    /\ DoWaitOrRaise(100)
    /\ UNCHANGED <<lim_ops, OtherThanLimiter>>

\* no call for 30 seconds
Idle ==
    /\ now + SecToTicks(30) <= SecToTicks(MaxBudgetSec)
    /\ DoElapse(SecToTicks(30))
    /\ UNCHANGED <<lim_ops, OtherThanLimiter>>

\* a limiter of any engine id, slow mode just activated
InitBudgetSpec ==
    /\ InitTranslatorWith({<<>>}, {600})
    /\ svc_pc = "idle"
    /\ fn_calls = 0
    /\ svc_outcome = NoOutcome
    /\ backoff = activate_slow_mode(InitBackoff, 1)
    /\ callback_set = FALSE
    /\ cb_calls = 0
    /\ sleeps = <<>>
    /\ InitBatch
    /\ InitTranslateBatch
    /\ InitBlocks
    /\ \E e \in {"deepl", "google_translate", "other"} : cfg = get_rate_limiter_cfg(e)
    /\ last_call_ts = 0
    /\ window_start_ts = 0
    /\ window_calls = 0
    /\ lim_op = [name |-> "activate_slow_mode", arg |-> 0, ret |-> "none", flip |-> TRUE,
                 msg |-> NoneText]
    /\ lim_ops = 1
    /\ pending_notice = TRUE
    /\ admits = <<>>
    /\ InitEngine
    /\ InitMore

NextBudget == PacedCall \/ Idle

SpecBudget == InitBudgetSpec /\ [][NextBudget]_vars

(* ----------- specification: the limiter's window call counter --------- *)
\* wait_or_raise for a text within the length limit, in or out of slow mode
CounterCall ==
    /\ CountCounterOp
    /\ DoWaitOrRaise(100)
    /\ UNCHANGED OtherThanLimiter

\* a rate limit puts the engine into slow mode
CounterActivate ==
    /\ CountCounterOp
    /\ ~backoff.slow_mode
    /\ DoActivateSlowMode
    /\ UNCHANGED OtherThanLimiter

\* no call for more than SlowClearAfterSec: the next call clears slow mode
CounterIdle ==
    /\ CountCounterOp
    /\ backoff.slow_mode
    /\ DoElapse(SecToTicks(SlowClearAfterSec) + 1)
    /\ UNCHANGED OtherThanLimiter

NextCounter == CounterCall \/ CounterActivate \/ CounterIdle

SpecCounter == InitPenaltySpec /\ [][NextCounter]_vars

(* ======================================================================= *)
(*                               properties                                *)
(* ======================================================================= *)
\* this step is an engine call
EngineCallStep == pc = "attempt" /\ n_calls' = n_calls + 1

\* this step is the wrapper handling the end of fn()
FnDoneStep ==
    /\ svc_pc = "called"
    /\ pc \in {"returned", "raised"}
    /\ (svc_pc' # svc_pc \/ fn_calls' # fn_calls)

\* C1: _run_with_rate_limit_retry invokes fn() at most twice per invocation:
\* a first LimitedModeError is followed by exactly one retry, a second
\* LimitedModeError ends the call with a TranslationError carrying its
\* message; the wrapper never raises LimitedModeError and never calls fn()
\* a third time.
C1_AtMostOneRetry ==
    /\ [](fn_calls <= 2 /\ svc_outcome.kind # "LimitedModeError")
    /\ [][FnDoneStep /\ outcome.kind = "LimitedModeError" =>
            IF fn_calls = 1
            THEN fn_calls' = 2 /\ svc_pc' = "called" /\ pc' = "attempt" /\ n_calls' = 0
            ELSE /\ fn_calls' = fn_calls
                 /\ svc_pc' = "done"
                 /\ svc_outcome' = [kind |-> "TranslationError", msg |-> outcome.msg,
                                    cause |-> "LimitedModeError"]]_vars

C1_Witness ==
    /\ svc_pc = "done"
    /\ fn_calls = 2
    /\ svc_outcome.kind = "TranslationError"
    /\ svc_outcome.cause = "LimitedModeError"

\* C2: an engine call that raises LimitedModeError is the last engine call of
\* its request; the request ends by raising that LimitedModeError itself
\* (same message, not wrapped), and exactly the container used gets
\* fail_uses + 1.
C2_LimitedModeReraised ==
    /\ [](last_call.kind = "LimitedModeError" =>
             /\ pc = "raised"
             /\ outcome = [kind |-> "LimitedModeError", msg |-> last_call.msg,
                           cause |-> "none"])
    /\ [][last_call.kind = "LimitedModeError" => ~EngineCallStep]_vars
    /\ [][EngineCallStep /\ last_call'.kind = "LimitedModeError" =>
            /\ last_call'.container = container
            /\ containers'[container].fail_uses = containers[container].fail_uses + 1
            /\ \A j \in 1..Len(containers) :
                   j # container => containers'[j] = containers[j]]_vars

C2_Witness ==
    /\ pc = "raised"
    /\ outcome.kind = "LimitedModeError"
    /\ Len(containers) = 2
    /\ n_calls = 2
    /\ containers[last_call.container].fail_uses >= 1

\* C3: when an engine call fails with any non-rate-limit error while attempts
\* remain and another non-blocked container exists, the failure is absorbed:
\* the request goes on with an engine call on another container.
C3_GeneralFailureAbsorbed ==
    [][(/\ EngineCallStep
        /\ last_call'.kind \in {"TranslationError", "Exception"}
        /\ attempts < 2 * Len(containers)
        /\ \E j \in 1..Len(containers) :
               j # container /\ ~is_blocked(containers[j], now))
       => (pc' = "attempt" /\ container' # container)]_vars

\* C4: one _translate_with_failover call makes at most 2 x N engine calls
\* (N >= 1 containers); after the 2N-th call the request has ended, and it
\* ends with a result or with an error.
C4_AtMostTwoCallsPerContainer ==
    /\ Len(containers) >= 1
    /\ n_calls <= 2 * Len(containers)
    /\ (pc = "attempt" => n_calls < 2 * Len(containers))
    /\ (pc \in {"returned", "raised"} =>
            outcome.kind \in {"result", "TranslationError", "LimitedModeError"})
    /\ (pc = "returned" <=> outcome.kind = "result")

C4_Witness ==
    /\ Len(containers) = 2
    /\ n_calls = 4
    /\ pc = "raised"

\* the sole container is blocked at the moment of the initial selection
SoleBlockedAtEntry ==
    /\ Len(containers) = 1
    /\ pc = "idle" /\ pc' # "idle"
    /\ is_blocked(containers[1], now)

\* the sole container, marked failed by this engine call, is blocked at the
\* moment of the re-selection and attempts remain
SoleBlockedAtReselection ==
    /\ Len(containers) = 1
    /\ EngineCallStep
    /\ last_call'.kind = "TranslationError"
    /\ attempts < 2
    /\ containers[1].fail_uses + 1 >= containers[1].max_failures
    /\ SecToTicks(containers[1].block_timeout_sec) > 0

SoleRestoredAndCalled ==
    /\ pc' = "attempt"
    /\ container' = 1
    /\ containers'[1].fail_uses = 0
    /\ containers'[1].blocked_until = NoTime

\* C5 as stated: with a single container, every selection that finds it
\* blocked - the initial one or the re-selection after a failed attempt -
\* restores the primary and leads to an engine call on it.
C5_EverySelectionRestores ==
    [][(SoleBlockedAtEntry \/ SoleBlockedAtReselection) => SoleRestoredAndCalled]_vars

\* C5 amended: with a single container, the initial selection of a request
\* restores a blocked primary and an engine call is made on it, so no request
\* ends without an engine call; the re-selection after a failed attempt does
\* not restore: no container is selected, the container stays blocked and the
\* request ends with a TranslationError wrapping that attempt's error.
C5_OnlyInitialSelectionRestores ==
    /\ [](Len(containers) = 1 /\ pc \in {"returned", "raised"} => n_calls >= 1)
    /\ [][SoleBlockedAtEntry => SoleRestoredAndCalled]_vars
    /\ [][SoleBlockedAtReselection =>
            /\ pc' = "raised"
            /\ container' = NoContainer
            /\ is_blocked(containers'[1], now)
            /\ containers'[1].fail_uses = containers[1].fail_uses + 1
            /\ outcome' = [kind |-> "TranslationError", msg |-> last_call'.msg,
                           cause |-> "TranslationError"]]_vars

C5_Witness ==
    /\ Len(containers) = 1
    /\ restored
    /\ pc = "raised"
    /\ n_calls = 1
    /\ last_call.kind = "TranslationError"
    /\ is_blocked(containers[1], now)

\* C6: a container whose fail_uses has reached max_failures is blocked from
\* the failure that reached the limit until block_timeout_sec has elapsed
\* since that failure; restore() and mark_success() end the block, and no
\* container is blocked without having reached the limit.
C6_BlockedWhileLimitReached ==
    \A i \in 1..Len(containers) :
        LET c == containers[i]
        IN  /\ (c.fail_uses >= 1 /\ c.fail_uses >= c.max_failures =>
                   (is_blocked(c, now) <=>
                        now < c.last_used_at + SecToTicks(c.block_timeout_sec)))
            /\ (is_blocked(c, now) => c.fail_uses >= c.max_failures)
            /\ (c.fail_uses = 0 => c.blocked_until = NoTime)

C6_Witness ==
    \E i \in 1..Len(containers) :
        /\ containers[i].fail_uses = containers[i].max_failures
        /\ is_blocked(containers[i], now)
        /\ now > containers[i].last_used_at

\* C7: after a general translation failure on container c the next container
\* is another one whenever another non-blocked container exists, namely one
\* with the smallest last_used_at among the non-blocked containers other than
\* c; c is chosen again only when it is the only non-blocked container.
C7_AvoidLastPreferIdle ==
    [][EngineCallStep /\ last_call'.kind = "TranslationError" =>
        LET c == container
            blockedNow(j) ==
                IF j = c
                THEN /\ containers[c].fail_uses + 1 >= containers[c].max_failures
                     /\ SecToTicks(containers[c].block_timeout_sec) > 0
                ELSE containers[j].blocked_until # NoTime /\ containers[j].blocked_until > now
            others == {j \in 1..Len(containers) : j # c /\ ~blockedNow(j)}
        IN  /\ (others # {} =>
                   /\ container' \in others
                   /\ \A j \in others :
                          containers[container'].last_used_at <= containers[j].last_used_at)
            /\ (container' = c => others = {} /\ ~blockedNow(c))
            /\ (others = {} /\ blockedNow(c) => container' = NoContainer)]_vars

C7_Witness ==
    /\ Len(containers) = 3
    /\ pc = "attempt"
    /\ n_calls = 1
    /\ last_call.kind = "TranslationError"
    /\ ~is_blocked(containers[last_call.container], now)
    /\ container # last_call.container
    /\ \E j \in 1..3 : /\ j # container /\ j # last_call.container
                        /\ ~is_blocked(containers[j], now)
                        /\ containers[j].last_used_at > 0

\* C8: a request that ends because attempts are exhausted or no container can
\* be selected raises a TranslationError with the message of the last failed
\* engine call and that error as its cause; the container list is never
\* empty, every ended request has made at least one engine call, and the bare
\* 'No available translator containers' error is never raised.
C8_ExhaustionWrapsLastError ==
    /\ [](Len(containers) >= 1)
    /\ [](pc \in {"returned", "raised"} => n_calls >= 1)
    /\ [](outcome.msg # NoContainersMsg)
    /\ [](pc = "raised" /\ last_call.kind = "TranslationError" =>
             outcome = [kind |-> "TranslationError", msg |-> last_call.msg,
                        cause |-> "TranslationError"])

C8_Witness ==
    /\ pc = "raised"
    /\ n_calls = 2
    /\ last_call.kind = "TranslationError"
    /\ last_call.msg = "e2"
    /\ outcome.msg = "e2"
    /\ restored

RECURSIVE SumLens(_, _)
SumLens(reqs, batch) ==
    IF batch = <<>> THEN 0 ELSE reqs[Head(batch)] + SumLens(reqs, Tail(batch))

RECURSIVE Flatten(_)
Flatten(bs) == IF bs = <<>> THEN <<>> ELSE Head(bs) \o Flatten(Tail(bs))

BatchCapable == batch_pc = "split" /\ capabilities.supports_batch

\* C9 as stated: for a batch-capable engine every batch is non-empty, has at
\* most max_batch_size requests and, when max_chars_per_request is set, a
\* total text length of at most max_chars_per_request.
C9_EveryBatchWithinLimits ==
    BatchCapable =>
        \A k \in 1..Len(batches) :
            /\ Len(batches[k]) >= 1
            /\ Len(batches[k]) <= capabilities.max_batch_size
            /\ (capabilities.max_chars_per_request # NoLimit =>
                   SumLens(requests, batches[k]) <= capabilities.max_chars_per_request)

\* C9 amended: for a batch-capable engine every batch is non-empty and has
\* at most max_batch_size requests; when max_chars_per_request is set, its
\* total text length is at most max_chars_per_request unless the batch is a
\* single request whose own text is longer than the limit.
C9_BatchWithinLimitsUnlessSingle ==
    BatchCapable =>
        \A k \in 1..Len(batches) :
            /\ Len(batches[k]) >= 1
            /\ Len(batches[k]) <= capabilities.max_batch_size
            /\ (capabilities.max_chars_per_request # NoLimit =>
                   \/ SumLens(requests, batches[k]) <= capabilities.max_chars_per_request
                   \/ /\ Len(batches[k]) = 1
                      /\ requests[batches[k][1]] > capabilities.max_chars_per_request)

C9_Witness ==
    /\ BatchCapable
    /\ capabilities.max_chars_per_request = 100
    /\ capabilities.max_batch_size = 2
    /\ Len(batches) = 2
    /\ Len(batches[1]) = 2
    /\ SumLens(requests, batches[1]) = 100
    /\ SumLens(requests, batches[2]) = 120

\* C10: concatenating the batches in order gives back the requests in their
\* original order, each exactly once; for a batch-capable engine a batch is
\* closed only when the next request would exceed max_batch_size or
\* max_chars_per_request; limits {2, 100} and three requests of length 40
\* give [[b1, b2], [b3]].
C10_OrderPreservingGreedy ==
    batch_pc = "split" =>
        /\ Flatten(batches) = [i \in 1..Len(requests) |-> i]
        /\ (capabilities.supports_batch =>
               \A k \in 1..(Len(batches) - 1) :
                   \/ Len(batches[k]) + 1 > capabilities.max_batch_size
                   \/ /\ capabilities.max_chars_per_request # NoLimit
                      /\ SumLens(requests, batches[k]) + requests[batches[k + 1][1]]
                             > capabilities.max_chars_per_request)
        /\ (/\ requests = <<40, 40, 40>>
            /\ capabilities = [supports_batch |-> TRUE, max_batch_size |-> 2,
                               max_chars_per_request |-> 100]
            => batches = <<<<1, 2>>, <<3>>>>)

C10_Witness ==
    /\ batch_pc = "split"
    /\ requests = <<40, 40, 40>>
    /\ capabilities = [supports_batch |-> TRUE, max_batch_size |-> 2,
                       max_chars_per_request |-> 100]
    /\ batches = <<<<1, 2>>, <<3>>>>

\* C13: the default translate_batch either raises (and hands no list to the
\* caller) or returns exactly one result per request, result i being the
\* result of request i; translate_text(r) is element 0 of translate_batch([r]).
C13_BatchAllOrNothing ==
    /\ (tb_pc = "returned" =>
           /\ tb_outcome.kind = "results"
           /\ Len(tb_outcome.results) = Len(tb_requests)
           /\ \A i \in 1..Len(tb_requests) :
                  tb_outcome.results[i] = ResultOf(tb_requests[i]))
    /\ (tb_pc = "raised" =>
           /\ tb_outcome.kind \in {"LimitedModeError", "TranslationError"}
           /\ tb_outcome.results = <<>>)
    /\ (tb_pc = "returned" /\ Len(tb_requests) = 1 =>
           translate_text(tb_outcome.results) = ResultOf(tb_requests[1]))
    /\ (tb_pc = "loop" => Len(tb_results) < Len(tb_requests))

C13_Witness ==
    /\ tb_pc = "returned"
    /\ Len(tb_requests) = 2
    /\ tb_requests[1] # tb_requests[2]
    /\ Len(containers) = 2
    /\ containers[1].last_used_at > 1
    /\ containers[2].last_used_at > 1

RECURSIVE SeqOfSet(_)
SeqOfSet(S) ==
    IF S = {}
    THEN <<>>
    ELSE LET m == CHOOSE x \in S : \A y \in S : x <= y
         IN  <<m>> \o SeqOfSet(S \ {m})

\* blocks whose source text is not the empty string (or None)
NonEmptyBlocks == {i \in 1..Len(blocks) : OrEmpty(blocks[i].original_text) # <<>>}

\* blocks whose source text has a character that is not whitespace
NonBlankBlocks ==
    {i \in 1..Len(blocks) :
        \E j \in 1..Len(OrEmpty(blocks[i].original_text)) :
            OrEmpty(blocks[i].original_text)[j] \notin WhitespaceChars}

\* the block of each translate_batch call, for batches of one request
CalledBlocks == [k \in 1..Len(tb_log) |-> request_pairs[tb_log[k][1]]]

IsPrefix(a, b) == Len(a) <= Len(b) /\ a = SubSeq(b, 1, Len(a))

\* C11 as stated: without supports_batch every batch has one request and,
\* absent retries, translate_blocks calls translate_batch once per block with
\* non-empty source text, in block order, and never for an empty one.
C11_OneCallPerNonEmptyBlock ==
    ~capabilities.supports_batch /\ blk_pc # "idle" =>
        /\ \A k \in 1..Len(batches) : Len(batches[k]) = 1
        /\ (sleeps = <<>> => IsPrefix(CalledBlocks, SeqOfSet(NonEmptyBlocks)))
        /\ (sleeps = <<>> /\ blk_outcome.kind = "returned" =>
               CalledBlocks = SeqOfSet(NonEmptyBlocks))

\* C11 amended: the blocks that get a call are those whose source text is not
\* blank (has a non-whitespace character); whitespace-only blocks get none,
\* like empty ones.
C11_OneCallPerNonBlankBlock ==
    ~capabilities.supports_batch /\ blk_pc # "idle" =>
        /\ \A k \in 1..Len(batches) : Len(batches[k]) = 1
        /\ (sleeps = <<>> => IsPrefix(CalledBlocks, SeqOfSet(NonBlankBlocks)))
        /\ (sleeps = <<>> /\ blk_outcome.kind = "returned" =>
               CalledBlocks = SeqOfSet(NonBlankBlocks))
        /\ \A i \in 1..Len(blocks) :
               i \notin NonBlankBlocks => blocks[i].translated_text = EmptyTranslation

C11_Witness ==
    /\ ~capabilities.supports_batch
    /\ blk_pc = "done"
    /\ blk_outcome.kind = "returned"
    /\ sleeps = <<>>
    /\ Len(blocks) = 3
    /\ blocks[2].original_text = Str(<<" ", " ">>)
    /\ request_pairs = <<1, 3>>
    /\ tb_log = << <<1>>, <<2>> >>

\* C12: when some translate_batch call returned another number of results
\* than its batch had requests, translate_blocks raises TranslationError and
\* no block holds a result; a block only ever holds the result of its own
\* request.
C12_MismatchIsFatal ==
    /\ (blk_pc = "done" /\ mismatch =>
           /\ blk_outcome.kind = "TranslationError"
           /\ \A i \in 1..Len(blocks) : blocks[i].translated_text.kind # "result")
    /\ \A i \in 1..Len(blocks) :
           blocks[i].translated_text.kind = "result" =>
               \E k \in 1..Len(request_pairs) :
                   /\ request_pairs[k] = i
                   /\ blocks[i].translated_text.request = k

\* this step is the rate_limiter operation `name`
LimStep(name) == lim_op'.flip # lim_op.flip /\ lim_op'.name = name

\* C15: consume_slow_mode_notice returns true exactly when slow mode was
\* freshly activated, is still on and no call has returned true since; a
\* call that returns true only sets `notified`, every other call returns
\* false and changes nothing.
C15_NoticeOncePerActivation ==
    [][LimStep("consume_slow_mode_notice") =>
          /\ lim_op'.ret = pending_notice
          /\ (lim_op'.ret => backoff' = [backoff EXCEPT !.notified = TRUE])
          /\ (~lim_op'.ret => backoff' = backoff)
          /\ UNCHANGED <<last_call_ts, window_start_ts, window_calls, now>>]_vars

C15_Witness ==
    /\ lim_op.name = "consume_slow_mode_notice"
    /\ lim_op.ret = FALSE
    /\ backoff.slow_mode
    /\ backoff.notified
    /\ ~pending_notice

\* C17: wait_or_raise called in slow mode more than 300 s after the last
\* recorded error clears slow mode (slow_mode false, penalty 0, notified
\* false) and takes the fast path without sleeping; called 300 s or less
\* after it, slow mode stays as it is and the call is paced: it is counted
\* in the window and sleeps at least the penalty delay.
C17_SlowModeAutoClears ==
    [][LimStep("wait_or_raise") /\ lim_op'.ret # "ValueError" /\ backoff.slow_mode =>
          IF now - backoff.last_error_ts > SecToTicks(SlowClearAfterSec)
          THEN /\ ~backoff'.slow_mode
               /\ backoff'.penalty_delay_sec = 0
               /\ ~backoff'.notified
               /\ lim_op'.ret = "fast"
               /\ now' = now
               /\ last_call_ts' = now
               /\ UNCHANGED <<window_start_ts, window_calls>>
          ELSE /\ backoff' = backoff
               /\ lim_op'.ret = "slow"
               /\ window_calls' >= 1
               /\ now' >= now + MsToTicks(backoff.penalty_delay_sec)
               /\ last_call_ts' = now']_vars

C17_Witness ==
    /\ lim_op.name = "wait_or_raise"
    /\ lim_op.ret = "fast"
    /\ ~backoff.slow_mode
    /\ backoff.penalty_delay_sec = 0
    /\ backoff.last_error_ts # 0
    /\ now - backoff.last_error_ts = SecToTicks(SlowClearAfterSec) + 1

\* C19: a slow-mode wait_or_raise returns no earlier than min_interval_sec
\* plus the current penalty_delay_sec after the previously recorded call
\* time, whichever path recorded it.
C19_MinIntervalPlusPenalty ==
    [][LimStep("wait_or_raise") /\ lim_op'.ret = "slow" =>
          /\ last_call_ts' = now'
          /\ now' >= last_call_ts + MsToTicks(cfg.min_interval_sec)
                                   + MsToTicks(backoff'.penalty_delay_sec)
          /\ now' >= now + MsToTicks(backoff'.penalty_delay_sec)]_vars

C19_Witness ==
    /\ lim_op.name = "wait_or_raise"
    /\ lim_op.ret = "slow"
    /\ Len(admits) = 2
    /\ admits[2] - admits[1] = MsToTicks(cfg.min_interval_sec)
                                + MsToTicks(backoff.penalty_delay_sec)

\* C20: wait_or_raise ends with the text-too-long error exactly when
\* text_length > max_chars_per_request, in slow mode or not; it then does not
\* sleep and leaves the limiter and the backoff state unchanged.
C20_TextTooLongRejected ==
    [][LimStep("wait_or_raise") =>
          IF lim_op'.arg > cfg.max_chars_per_request
          THEN /\ lim_op'.ret = "ValueError"
               /\ UNCHANGED <<now, last_call_ts, window_start_ts, window_calls, backoff>>
          ELSE lim_op'.ret \in {"fast", "slow"}]_vars

C20_Witness ==
    /\ lim_op.name = "wait_or_raise"
    /\ lim_op.ret = "ValueError"
    /\ backoff.slow_mode
    /\ window_calls >= 1

\* C18: in slow mode no 60-second interval holds more than max_calls_per_min
\* admitted calls: max_calls_per_min + 1 consecutive slow-mode calls never
\* return within less than 60 seconds.
C18_RollingBudget ==
    Len(admits) = cfg.max_calls_per_min + 1 =>
        admits[Len(admits)] - admits[1] >= SecToTicks(WindowSec)

\* this wrapper step handles a LimitedModeError of an engine call that was
\* made while slow mode was off, and leaves slow mode on
FreshActivation ==
    /\ outcome.kind = "LimitedModeError"
    /\ ~engine.was_slow
    /\ backoff'.slow_mode

\* C14 (as stated): the registered callback is invoked exactly when slow
\* mode is freshly activated (not-slow to slow), and not for a rate-limit
\* failure that occurs while the engine is already in slow mode.
C14_CallbackEdgeTriggered ==
    [][FnDoneStep /\ callback_set =>
          (cb_calls' = cb_calls + 1 <=> FreshActivation)]_vars

\* C14 (amended): the registered callback is invoked exactly when the first
\* attempt of a wrapper call ends with LimitedModeError, whether slow mode
\* was already on or not, and never for the LimitedModeError of the retry;
\* every fresh activation is therefore reported, and so is every later first
\* failure in slow mode.
C14_CallbackOnFirstLimitedMode ==
    /\ [][FnDoneStep =>
            IF callback_set /\ outcome.kind = "LimitedModeError" /\ fn_calls = 1
            THEN cb_calls' = cb_calls + 1
            ELSE cb_calls' = cb_calls]_vars
    /\ [][FnDoneStep /\ callback_set /\ FreshActivation =>
            cb_calls' = cb_calls + 1]_vars

C14_Witness ==
    /\ svc_pc = "called"
    /\ fn_calls = 2
    /\ pc = "attempt"
    /\ engine.pc = "start"
    /\ engine.was_slow
    /\ callback_set
    /\ cb_calls = 1

\* C16: when the first attempt raises LimitedModeError and the retry
\* succeeds, slow mode is activated and the callback is invoked exactly once
\* before the retry starts, the service sleeps exactly once between the two
\* attempts, for at least max(penalty_delay_sec, 1.5 s), and the retry's
\* result is returned to the caller.
C16_RetryAfterLimitedMode ==
    /\ [][FnDoneStep /\ fn_calls = 1 /\ outcome.kind = "LimitedModeError" =>
            /\ backoff'.slow_mode
            /\ callback_set => cb_calls' = 1
            /\ Len(sleeps') = 1
            /\ sleeps'[1] >= MsToTicks(Max(backoff'.penalty_delay_sec, 1500))
            /\ now' = now + sleeps'[1]
            /\ fn_calls' = 2
            /\ pc' = "attempt"
            /\ n_calls' = 0]_vars
    /\ [][FnDoneStep /\ fn_calls = 2 /\ outcome.kind = "result" =>
            /\ svc_pc' = "done"
            /\ svc_outcome' = outcome
            /\ Len(sleeps') = 1
            /\ cb_calls' = (IF callback_set THEN 1 ELSE 0)
            /\ backoff'.slow_mode]_vars

C16_Witness ==
    /\ svc_pc = "done"
    /\ fn_calls = 2
    /\ svc_outcome.kind = "result"
    /\ callback_set
    /\ cb_calls = 1
    /\ Len(sleeps) = 1
    /\ backoff.slow_mode
    /\ lim_op.name = "wait_or_raise"
    /\ lim_op.ret = "slow"

\* C21: activate_slow_mode sets slow_mode and brings penalty_delay_sec into
\* [2.0 s, 30.0 s]; it resets notified only on a transition from not-slow to
\* slow, and when the engine is already slow it changes nothing but
\* last_error_ts.
C21_ActivateIdempotentWhileSlow ==
    [][LimStep("activate_slow_mode") =>
          /\ backoff'.slow_mode
          /\ backoff'.penalty_delay_sec >= 2000
          /\ backoff'.penalty_delay_sec <= 30000
          /\ backoff'.last_error_ts = now
          /\ IF backoff.slow_mode
             THEN backoff' = [backoff EXCEPT !.last_error_ts = now]
             ELSE ~backoff'.notified]_vars

C21_Witness ==
    /\ lim_op.name = "activate_slow_mode"
    /\ backoff.slow_mode
    /\ backoff.notified
    /\ backoff.penalty_delay_sec > 2000
    /\ backoff.last_error_ts > backoff.slow_since

\* the messages of Messages that contain "rate limit" in some casing
C22_RateLimitMessages ==
    {Str(<<"R", "a", "t", "e", " ", "L", "I", "M", "I", "T", "!">>)}

\* C22: register_backoff_failure activates slow mode if and only if
\* status_code is 429 or 403 or the message contains "rate limit" in any
\* casing; for every other failure it leaves slow_mode and notified unchanged
\* and sets penalty_delay_sec to min(previous + 1.0 s, 10.0 s).
C22_RegisterFailure ==
    [][LimStep("register_backoff_failure") =>
          IF lim_op'.arg \in {429, 403} \/ lim_op'.msg \in C22_RateLimitMessages
          THEN backoff' = activate_slow_mode(backoff, now)
          ELSE /\ backoff'.slow_mode = backoff.slow_mode
               /\ backoff'.notified = backoff.notified
               /\ backoff'.slow_since = backoff.slow_since
               /\ backoff'.penalty_delay_sec =
                      IF backoff.penalty_delay_sec + 1000 <= 10000
                      THEN backoff.penalty_delay_sec + 1000
                      ELSE 10000]_vars

\* a failure without status code is registered at the 10 s ceiling while the
\* engine is not slow
C22_Witness ==
    /\ lim_op.name = "register_backoff_failure"
    /\ lim_op.arg = NoStatusCode
    /\ lim_op.msg = Str(<<"r", "a", "t", "e", "l", "i", "m", "i", "t">>)
    /\ ~backoff.slow_mode
    /\ backoff.penalty_delay_sec = 10000
    /\ lim_ops > 10

\* a failure whose only sign of rate limiting is its mixed-case message
C22_WitnessMessage ==
    /\ lim_op.name = "register_backoff_failure"
    /\ lim_op.arg = 500
    /\ lim_op.msg \in C22_RateLimitMessages
    /\ backoff.slow_mode

\* C26: after any sequence of add_segment and clear calls the history holds
\* at most max_length entries: the most recently added ones since the last
\* clear, in insertion order, oldest first.
C26_HistoryWithinCapacity ==
    LET k == Min(n_since, max_length)
    IN  /\ Len(history) <= max_length
        /\ history = [i \in 1..k |-> n_added - k + i]

\* C27: get_recent_context(limit) returns the last min(limit, len(history))
\* entries, oldest first, never more than limit, and what the caller does to
\* the returned list leaves the history as it was.
C27_RecentContext ==
    /\ [](ctx_op.name = "get_recent_context" =>
             LET k == Min(ctx_op.arg, Len(history))
             IN  /\ Len(ctx_op.ret) <= ctx_op.arg
                 /\ ctx_op.ret = SubSeq(history, Len(history) - k + 1, Len(history)))
    /\ [][ctx_op'.name = "caller" => UNCHANGED history]_vars

\* this step is a translate_text or translate_blocks call
FrontStep == front_calls' = front_calls + 1

\* the empty and the whitespace-only texts among the texts handed in
C23_BlankTexts == {Str(<<>>), Str(<<" ", " ">>)}

\* C23: translate_text with an empty or whitespace-only text returns the
\* input unchanged, makes no engine call, neither resolves nor creates a
\* translator, and leaves the context history unchanged, also when
\* reset_context is true.
C23_BlankTextReturnedUnchanged ==
    [][FrontStep /\ front_op'.name = "translate_text"
         /\ front_op'.text \in C23_BlankTexts =>
          /\ front_op'.ret = [kind |-> "returned", text |-> front_op'.text]
          /\ ~front_op'.engine_called
          /\ ~front_op'.resolved
          /\ UNCHANGED <<history, n_added, translator_cache, n_created>>]_vars

C23_Witness ==
    /\ front_op.name = "translate_text"
    /\ front_op.text = Str(<<" ", " ">>)
    /\ front_op.reset
    /\ front_op.ret.kind = "returned"
    /\ history # <<>>
    /\ translator_cache # {}

\* the canonical form of the engine ids handed in
C24_Canonical == [yandex |-> "yandex_translate", yandex_translate |-> "yandex_translate",
                  deepl |-> "deepl", unregistered |-> "unregistered"]

\* C24: the translator cache holds at most one entry, the one of the latest
\* call that obtained a translator, under its (normalized engine id,
\* settings) pair; a call with the same normalized id and equal settings as
\* the entry gets the entry's instance and creates nothing, any other call
\* that obtains a translator gets a newly created one, which replaces the
\* entry; a call that obtains no translator leaves the cache alone.
C24_SingleSlotCache ==
    /\ [](Cardinality(translator_cache) <= 1)
    /\ [][FrontStep =>
            LET op == front_op'
                pair == <<C24_Canonical[op.engine_id], op.engine_state.items>>
                same == {e \in translator_cache : e.key = pair}
            IN  IF op.resolved
                THEN /\ translator_cache' = {[key |-> pair, inst |-> op.inst]}
                     /\ IF same # {}
                        THEN /\ \A e \in same : op.inst = e.inst
                             /\ n_created' = n_created
                        ELSE /\ op.inst = n_created + 1
                             /\ n_created' = n_created + 1
                ELSE UNCHANGED <<translator_cache, n_created>>]_vars

\* the second translator is reused under the alias after it has replaced the
\* first one
C24_Witness ==
    /\ front_calls = 3
    /\ n_created = 2
    /\ front_op.resolved
    /\ front_op.engine_id = "yandex"
    /\ front_op.engine_state = NoSettings
    /\ front_op.inst = 2
    /\ translator_cache = {[key |-> <<"yandex_translate", {}>>, inst |-> 2]}

\* C28: a failing knowledge load never reaches the caller: the call goes on
\* with an empty knowledge object (no characters, no terms, no style); the
\* loaded or the fallback knowledge is stored on the project, so the loader
\* is invoked at most once per project over any sequence of calls.
C28_KnowledgeLoadAbsorbed ==
    /\ [](\A p \in Projects : /\ loads[p] <= 1
                             /\ loads[p] = 1 <=> knowledge[p].kind # "None")
    /\ [][FrontStep /\ front_op'.resolved =>
            LET op == front_op'
                p == op.project
            IN  /\ op.ret.kind \in {"translated", "blocks", "TranslationError"}
                /\ op.knowledge = knowledge'[p]
                /\ op.knowledge.kind \in {"loaded", "fallback"}
                /\ op.knowledge.kind = "fallback" =>
                       /\ op.knowledge.characters = <<>>
                       /\ op.knowledge.terms = <<>>
                       /\ op.knowledge.style = "None"
                /\ knowledge[p].kind # "None" =>
                       /\ knowledge'[p] = knowledge[p]
                       /\ loads' = loads
                /\ \A q \in Projects \ {p} :
                       knowledge'[q] = knowledge[q] /\ loads'[q] = loads[q]]_vars

C28_Witness ==
    /\ front_calls = 3
    /\ loads = [p \in Projects |-> 1]
    /\ knowledge["p1"].kind = "fallback"
    /\ knowledge["p2"].kind = "loaded"
    /\ front_op.project = "p1"
    /\ front_op.knowledge.kind = "fallback"
    /\ front_op.ret.kind = "translated"
    /\ n_added = 1

\* C25: every request built by translate_text or translate_blocks carries at
\* most context_window recent-context entries, the most recent ones, oldest
\* first, for every declared context_window >= 0 and every history.
C25_ContextWithinWindow ==
    [][FrontStep =>
          \A i \in DOMAIN front_op'.contexts :
              LET h == IF front_op'.reset THEN <<>> ELSE history
                  k == Min(context_window, Len(h))
              IN  /\ Len(front_op'.contexts[i]) <= context_window
                  /\ front_op'.contexts[i] = SubSeq(h, Len(h) - k + 1, Len(h))]_vars

\* C29: with two containers and max_failures = 2, container 1 always failing
\* with TranslationError and container 2 always succeeding: every request
\* returns the result of container 2, container 2 has fail_uses = 0 after
\* every request, and container 1 is blocked as soon as its second failure
\* in a row is marked.
C29_SecondContainerServes ==
    /\ [](/\ pc # "raised"
          /\ containers[2].fail_uses = 0
          /\ containers[2].blocked_until = NoTime
          /\ pc = "returned" => last_call.container = 2 /\ outcome.kind = "result")
    /\ [][EngineCallStep /\ container = 1 =>
            /\ containers'[1].fail_uses = containers[1].fail_uses + 1
            /\ containers'[1].fail_uses >= 2 =>
                   containers'[1].blocked_until =
                       now + SecToTicks(containers[1].block_timeout_sec)]_vars

C29_Witness ==
    /\ pc = "returned"
    /\ n_calls = 2
    /\ last_call.container = 2
    /\ containers[1].fail_uses = 2
    /\ is_blocked(containers[1], now)
    /\ containers[2].fail_uses = 0

\* every source that _apply_glossary_and_name_fixes substitutes under the
\* knowledge: the sources of the terms with a target, and the original names
\* of the characters with a display name
C30_Sources ==
    {gloss_knowledge.terms[i].source : i \in
         {j \in DOMAIN gloss_knowledge.terms :
              /\ gloss_knowledge.terms[j].source # <<>>
              /\ gloss_knowledge.terms[j].target # <<>>}}
    \cup UNION {{c.original_names[i] : i \in
                     {j \in DOMAIN c.original_names : c.original_names[j] # <<>>}} :
                c \in {gloss_knowledge.characters[k] : k \in
                           {m \in DOMAIN gloss_knowledge.characters :
                                gloss_knowledge.characters[m].display_name # <<>>}}}

\* no source occurs in the substituted text: no replacement text contained
\* or created one
C30_NoOverlap == \A src \in C30_Sources : ~Contains(src, gloss_once)

\* C30: glossary and name post-processing is idempotent when the terms do not
\* overlap: if no replacement text contains or creates an occurrence of a
\* glossary source term or a character's original name, then applying the same
\* knowledge to the already-substituted text returns it unchanged.
C30_GlossaryIdempotent ==
    gloss_pc = "twice" /\ C30_NoOverlap => gloss_twice = gloss_once

\* C30 witness: a term and a character name were both substituted, nothing
\* overlaps, and the second application returned the text unchanged
C30_Witness ==
    /\ gloss_pc = "twice"
    /\ Cardinality(C30_Sources) = 2
    /\ \A src \in C30_Sources : Contains(src, gloss_text)
    /\ gloss_once # gloss_text
    /\ C30_NoOverlap
    /\ gloss_twice = gloss_once

\* the accounting fields of container i are the same after the step
C33_Untouched(i) ==
    /\ containers'[i].fail_uses = containers[i].fail_uses
    /\ containers'[i].blocked_until = containers[i].blocked_until

\* C33: container accounting in _translate_with_failover.  A successful engine
\* call sets the used container's fail_uses to 0 and clears its block; a failed
\* engine call of any error kind adds one to the used container's fail_uses; an
\* engine call changes neither fail_uses nor blocked_until of a container it
\* did not use; and outside engine calls these fields change only when the
\* primary is force-restored while every container is blocked.
C33_ContainerAccounting ==
    [][/\ EngineCallStep =>
            /\ last_call'.kind = "ok" =>
                   /\ containers'[container].fail_uses = 0
                   /\ containers'[container].blocked_until = NoTime
            /\ last_call'.kind # "ok" =>
                   containers'[container].fail_uses = containers[container].fail_uses + 1
            /\ \A i \in DOMAIN containers : i # container => C33_Untouched(i)
       /\ ~EngineCallStep =>
            \A i \in DOMAIN containers :
                \/ C33_Untouched(i)
                \/ /\ i = _primary_container(containers)
                   /\ \A j \in DOMAIN containers : is_blocked(containers[j], now)
                   /\ containers'[i].fail_uses = 0
                   /\ containers'[i].blocked_until = NoTime]_vars

\* C33 witness: a request succeeded on its second or later engine call; the
\* container that served it has no failures and no block, and another
\* container still carries the failures of the earlier calls
C33_Witness ==
    /\ pc = "returned"
    /\ n_calls >= 2
    /\ containers[last_call.container].fail_uses = 0
    /\ containers[last_call.container].blocked_until = NoTime
    /\ \E i \in DOMAIN containers : i # last_call.container /\ containers[i].fail_uses > 0

\* C39: in every BackoffState reachable through activate_slow_mode,
\* register_backoff_failure and wait_or_raise, penalty_delay_sec lies between 0
\* and 10.0 seconds and is at least 2.0 seconds whenever slow_mode is true; the
\* penalty never decreases, except when wait_or_raise auto-clears slow mode,
\* which resets it to 0.
C39_PenaltyBounds ==
    /\ [](/\ backoff.penalty_delay_sec >= 0
          /\ backoff.penalty_delay_sec <= 10000
          /\ backoff.slow_mode => backoff.penalty_delay_sec >= 2000)
    /\ [][\/ backoff'.penalty_delay_sec >= backoff.penalty_delay_sec
          \/ /\ lim_op'.name = "wait_or_raise"
             /\ backoff.slow_mode
             /\ ~backoff'.slow_mode
             /\ backoff'.penalty_delay_sec = 0]_vars

\* C39 witness: ten generic failures after an activation have brought the
\* penalty of a slow-mode state to 10.0 seconds
C39_Witness ==
    /\ backoff.slow_mode
    /\ backoff.penalty_delay_sec = 10000
    /\ lim_op.name = "register_backoff_failure"
    /\ lim_op.arg = 500

\* C39 witness of the exception: wait_or_raise has cleared slow mode and the
\* penalty is back at 0
C39_WitnessCleared ==
    /\ lim_op.name = "wait_or_raise"
    /\ lim_op.ret = "fast"
    /\ ~backoff.slow_mode
    /\ backoff.penalty_delay_sec = 0
    /\ backoff.last_error_ts # 0

\* this step is a wait_or_raise call
C40_WaitStep == lim_op'.name = "wait_or_raise" /\ lim_op'.flip # lim_op.flip

\* C40: with max_calls_per_min > 0 the limiter's window call counter never
\* exceeds max_calls_per_min, and it changes only on slow-mode calls of
\* wait_or_raise: a fast-path call records the last call time but neither
\* counts against the window nor starts one.
C40_WindowCounter ==
    /\ [](cfg.max_calls_per_min > 0 => window_calls <= cfg.max_calls_per_min)
    /\ [][/\ C40_WaitStep /\ lim_op'.ret = "fast" =>
                /\ last_call_ts' = now
                /\ window_calls' = window_calls
                /\ window_start_ts' = window_start_ts
          /\ window_calls' # window_calls =>
                C40_WaitStep /\ lim_op'.ret = "slow"]_vars

\* C40 witness: the counter stands at max_calls_per_min after a slow-mode
\* call, in a behaviour that holds more than the activation and the counted
\* calls
C40_Witness ==
    /\ cfg.max_calls_per_min > 0
    /\ window_calls = cfg.max_calls_per_min
    /\ lim_op.name = "wait_or_raise"
    /\ lim_op.ret = "slow"
    /\ lim_ops >= cfg.max_calls_per_min + 2

\* C40 witness of the budget branch: a slow-mode call found the counter at
\* max_calls_per_min within the window, waited and restarted the count
C40_WitnessRestart ==
    /\ Len(admits) = cfg.max_calls_per_min + 1
    /\ window_calls = 1
    /\ lim_op.ret = "slow"
    /\ window_start_ts - admits[1] < SecToTicks(WindowSec)

\* C38: every LimitedModeError that reaches _run_with_rate_limit_retry on the
\* first attempt puts the engine into slow mode, with a penalty of at least
\* 2.0 seconds, whatever its status code or message: also when the engine's
\* register_backoff_failure classified the failure as generic and left slow
\* mode off.
C38_FirstLimitedModeActivates ==
    [][FnDoneStep /\ fn_calls = 1 /\ outcome.kind = "LimitedModeError" =>
           /\ backoff'.slow_mode
           /\ backoff'.penalty_delay_sec >= 2000
           /\ backoff'.last_error_ts = now]_vars

\* C38 witness: the web call failed with a message that is no rate limit
\* while slow mode was off, register_backoff_failure only raised the penalty,
\* and the wrapper, about to retry, has turned slow mode on
C38_Witness ==
    /\ svc_pc = "called"
    /\ fn_calls = 2
    /\ pc = "attempt"
    /\ n_calls = 0
    /\ lim_op.name = "register_backoff_failure"
    /\ ~IsRateLimitFailure(lim_op.arg, lim_op.msg)
    /\ ~engine.was_slow
    /\ backoff.slow_mode
    /\ backoff.penalty_delay_sec >= 2000

\* the number of requests in the first b batches
RECURSIVE RequestsUpTo(_)
RequestsUpTo(b) == IF b = 0 THEN 0 ELSE RequestsUpTo(b - 1) + Len(batches[b])

\* the batch that holds request k
BatchOfRequest(k) ==
    CHOOSE b \in 1..Len(batches) : RequestsUpTo(b - 1) < k /\ k <= RequestsUpTo(b)

\* the context of request k holds the pair of the block of request j
SeesRequest(k, j) ==
    \E m \in 1..Len(page.contexts[k]) : page.contexts[k][m] = PageEntry(request_pairs[j])

\* C32: within one translate_blocks call the context of a block never holds
\* the translation of another block of the same batch, while a block of a
\* later batch does see the translations of the blocks of the earlier,
\* completed batches of the call.
C32_CrossBatchContext ==
    blk_pc = "called" =>
        \A k \in 1..Len(request_pairs) :
            BatchOfRequest(k) = batch_idx =>
                \A j \in 1..Len(request_pairs) :
                    /\ j # k /\ BatchOfRequest(j) = batch_idx => ~SeesRequest(k, j)
                    /\ BatchOfRequest(j) < batch_idx /\ j \notin page.empty_results =>
                           SeesRequest(k, j)

\* C32, the part that holds: no request of the call carries the pair of a
\* block of its own batch
C32_SameBatchUnseen ==
    blk_pc \in {"called", "done"} =>
        \A k \in 1..Len(request_pairs) : \A j \in 1..Len(request_pairs) :
            j # k /\ BatchOfRequest(j) = BatchOfRequest(k) => ~SeesRequest(k, j)

\* the blocks that hold a translation of the call, in block order, as pairs
C34_TranslatedPairs ==
    LET translated == {i \in 1..Len(blocks') : blocks'[i].translated_text.kind = "result"}
        ordered == SeqOfSet(translated)
    IN  [k \in 1..Len(ordered) |-> PageEntry(ordered[k])]

\* this step ends a translate_blocks call that returns
C34_BlocksReturn == blk_pc # "done" /\ blk_pc' = "done" /\ blk_outcome'.kind = "returned"

\* this step is a translate_text call
C34_TextStep == page'.call = "translate_text" /\ front_calls' = front_calls + 1

\* C34: a successful translate_blocks call extends the history by exactly one
\* pair per block whose post-processed translation is not empty, in block
\* order, and by nothing for a block whose translation is empty;
\* translate_text appends its pair only when the final text is not empty.
C34_HistoryExtendedPerBlock ==
    [][/\ C34_BlocksReturn =>
            /\ history' = (IF page'.reset THEN <<>> ELSE page'.history_before)
                             \o C34_TranslatedPairs
            /\ \A k \in page'.empty_results :
                   blocks'[request_pairs'[k]].translated_text = EmptyTranslation
       /\ C34_TextStep =>
            history' = (IF page'.reset /\ ~IsBlankText(page'.text) THEN <<>> ELSE history)
                          \o (IF page'.result = "translation" THEN <<PageEntry(0)>>
                              ELSE <<>>)]_vars

\* C34 witness: a call with three requests in two batches has returned; the
\* engine gave an empty translation for the second, and the history holds the
\* pair of an earlier translate_text call and then those of blocks 1 and 3
C34_Witness ==
    /\ blk_pc = "done"
    /\ blk_outcome.kind = "returned"
    /\ request_pairs = <<1, 2, 3>>
    /\ page.empty_results = {2}
    /\ ~mismatch
    /\ history = <<PageEntry(0), PageEntry(1), PageEntry(3)>>

\* the blocks of the call whose source text is empty or whitespace-only
C35_BlankBlocks ==
    {i \in 1..Len(blocks) : IsSkipped(OrEmpty(blocks[i].original_text))}

\* the blocks of the call that have a request
C35_RequestedBlocks == {request_pairs[k] : k \in 1..Len(request_pairs)}

\* C35 (as stated): for a block whose source text is empty or whitespace-only
\* translate_blocks issues no engine request and leaves the block
\* untranslated: its translated_text is the same after the call as before.
C35_BlankBlockUntouched ==
    page.call = "translate_blocks" =>
        \A i \in C35_BlankBlocks :
            /\ i \notin C35_RequestedBlocks
            /\ blocks[i].translated_text = page.blocks_before[i].translated_text

\* C35 amended: for a block whose source text is empty or whitespace-only
\* translate_blocks issues no engine request and sets translated_text to the
\* empty string, whatever the block held before; the source text is kept.
C35_BlankBlockSetEmpty ==
    page.call = "translate_blocks" =>
        \A i \in C35_BlankBlocks :
            /\ i \notin C35_RequestedBlocks
            /\ blocks[i].translated_text = EmptyTranslation
            /\ blocks[i].original_text = page.blocks_before[i].original_text

\* C35 witness: a call has returned; its whitespace-only block, which held a
\* translation before, holds the empty string, and its other block was
\* translated through one request
C35_Witness ==
    /\ blk_pc = "done"
    /\ blk_outcome.kind = "returned"
    /\ Len(blocks) = 2
    /\ page.blocks_before[1].original_text = Str(<<" ", " ">>)
    /\ page.blocks_before[1].translated_text = Previous
    /\ blocks[1].translated_text = EmptyTranslation
    /\ request_pairs = <<2>>
    /\ blocks[2].translated_text.kind = "result"

\* the call has raised
C36_Raised == page.call = "translate_blocks" /\ blk_pc = "done" /\ blk_outcome.kind # "returned"

\* C36 (as stated): translate_blocks is all-or-nothing on error: when it
\* raises in any batch, no block with non-empty source text has had its
\* translated_text changed and, when reset_context is false, the history is
\* what it was before the call, even if earlier batches completed.
C36_AllOrNothing ==
    C36_Raised =>
        /\ \A i \in 1..Len(blocks) :
               OrEmpty(blocks[i].original_text) # <<>> =>
                   blocks[i].translated_text = page.blocks_before[i].translated_text
        /\ ~page.reset => history = page.history_before

\* C36 amended: when translate_blocks raises in any batch, no block whose
\* source text has a non-whitespace character has had its translated_text
\* changed (the blank blocks, whitespace-only ones included, have been set to
\* the empty string) and, when reset_context is false, the history is what it
\* was before the call, even if earlier batches completed.
C36_AllOrNothingNonBlank ==
    C36_Raised =>
        /\ \A i \in 1..Len(blocks) :
               IF IsSkipped(OrEmpty(blocks[i].original_text))
               THEN blocks[i].translated_text = EmptyTranslation
               ELSE blocks[i].translated_text = page.blocks_before[i].translated_text
        /\ ~page.reset => history = page.history_before

\* C36 witness: the first batch of a call returned its two results, the
\* second batch raised; the blocks hold what they held, an earlier
\* translation among it, and the history still is the one pair found
C36_Witness ==
    /\ C36_Raised
    /\ batch_idx = 2
    /\ ~mismatch
    /\ Len(all_results) = 2
    /\ request_pairs = <<1, 2, 3>>
    /\ blocks = page.blocks_before
    /\ blocks[1].translated_text = Previous
    /\ ~page.reset
    /\ history = <<PageEntry(0)>>


\* the engine call of attempt a for request r ended in one of the kinds
C37_SentIn(a, r, kinds) ==
    \E n \in 1..Len(sent) :
        sent[n].attempt = a /\ sent[n].request = r /\ sent[n].kind \in kinds

\* the request at which the first attempt raised LimitedModeError, 0 if none
C37_FailedRequest ==
    CHOOSE r \in 0..Len(tb_requests) :
        \/ C37_SentIn(1, r, {"LimitedModeError"})
        \/ r = 0 /\ \A q \in 1..Len(tb_requests) : ~C37_SentIn(1, q, {"LimitedModeError"})

C37_RetryStep ==
    /\ svc_pc = "called"
    /\ tb_pc = "raised"
    /\ tb_outcome.kind = "LimitedModeError"
    /\ fn_calls = 1

C37_RetryOrder ==
    \A n \in 1..Len(sent) :
        sent[n].attempt = 2 =>
            /\ (n = 1 \/ sent[n - 1].attempt = 1) => sent[n].request = 1
            /\ sent[n].request > 1 => C37_SentIn(2, sent[n].request - 1, {"ok"})

C37_ReturnedAfterRetry ==
    (svc_pc = "done" /\ fn_calls = 2 /\ svc_outcome.kind = "results") =>
        /\ Len(svc_outcome.results) = Len(tb_requests)
        /\ \A r \in 1..Len(tb_requests) :
              /\ svc_outcome.results[r] = ResultOf(tb_requests[r])
              /\ C37_SentIn(2, r, {"ok"})
              /\ r < C37_FailedRequest => C37_SentIn(1, r, {"ok"})

(* C37: when a batch of two or more requests runs under the wrapper through
   the default sequential translate_batch and the engine raises
   LimitedModeError at the k-th request on the first attempt, the retry runs
   the whole batch again from its first request: the retry starts with no
   result kept from the first attempt, its engine calls begin at request 1
   and go through the requests in order, and a list returned after the retry
   holds one result per request, every request before the k-th having been
   sent to the engine in both attempts. *)
C37_RetryReexecutesBatch ==
    /\ [](C37_RetryOrder /\ C37_ReturnedAfterRetry)
    /\ [][C37_RetryStep =>
            /\ tb_results' = <<>>
            /\ tb_requests' = tb_requests
            /\ tb_pc' = "loop"
            /\ fn_calls' = 2]_vars

\* C37 witness: a batch whose second or later request raised LimitedModeError
\* on the first attempt has been returned after the retry, the first request
\* having been sent to the engine in both attempts
C37_Witness ==
    /\ svc_pc = "done"
    /\ fn_calls = 2
    /\ svc_outcome.kind = "results"
    /\ C37_FailedRequest >= 2
    /\ C37_SentIn(1, 1, {"ok"})
    /\ C37_SentIn(2, 1, {"ok"})

\* the capabilities the translator at position k holds
C31_CapsOf(objs, k) == objs[translators[k].capabilities]

\* the references of the registry's own objects
C31_RegistryRefs == {_ENTRIES[e] : e \in DOMAIN _ENTRIES}

\* the registry's defaults are what the source declares, nothing has been
\* created for an id that is not registered, a call raised exactly when its
\* normalized id has no entry, and every translator holds an object of its
\* own
C31_State ==
    /\ \A e \in DOMAIN _ENTRIES :
          get_translator_capabilities(objects, e) = DeclaredCapabilities[_ENTRIES[e]]
    /\ \A k \in 1..Len(translators) :
          /\ translators[k].engine_id \in DOMAIN _ENTRIES
          /\ translators[k].capabilities \notin C31_RegistryRefs
          /\ \A j \in 1..Len(translators) :
                j # k => translators[j].capabilities # translators[k].capabilities
    /\ create_result.kind # "none" =>
          (create_result.kind = "ValueError"
              <=> normalize_translator_id(create_result.engine_id) \notin DOMAIN _ENTRIES)

\* a call that raised created nothing; a call that returned added one
\* translator whose capabilities are the registry default, whatever had been
\* done to the translators created before; and an assignment to a field of
\* a translator's capabilities changes the capabilities of no other
\* translator
C31_Step ==
    /\ (create_result' # create_result /\ create_result'.kind = "ValueError") =>
          translators' = translators /\ objects' = objects
    /\ Len(translators') # Len(translators) =>
          /\ Len(translators') = Len(translators) + 1
          /\ create_result'.kind = "returned"
          /\ create_result'.inst = Len(translators')
          /\ \A k \in 1..Len(translators) :
                /\ translators'[k] = translators[k]
                /\ C31_CapsOf(objects', k) = C31_CapsOf(objects, k)
          /\ objects'[translators'[Len(translators')].capabilities]
                = DeclaredCapabilities[_ENTRIES[translators'[Len(translators')].engine_id]]
    /\ \A j, k \in 1..Len(translators) :
          (j # k /\ C31_CapsOf(objects', k) # C31_CapsOf(objects, k)) =>
              C31_CapsOf(objects', j) = C31_CapsOf(objects, j)

(* C31: create_translator raises and creates nothing when the normalized id
   has no registry entry; otherwise every call returns a new translator
   holding its own copy of the entry's capabilities, so that assigning to a
   field of one translator's capabilities changes neither the registry
   default nor the capabilities of any translator created before or after. *)
C31_CreateIsolated == []C31_State /\ [][C31_Step]_vars

\* C31 witness: the first of two translators of the same engine has had a
\* field of its capabilities assigned, the second was created afterwards, and
\* a call with an unregistered id has just raised
C31_Witness ==
    /\ Len(translators) = 2
    /\ translators[1].engine_id = translators[2].engine_id
    /\ C31_CapsOf(objects, 1) # DeclaredCapabilities[_ENTRIES[translators[1].engine_id]]
    /\ C31_CapsOf(objects, 2) = DeclaredCapabilities[_ENTRIES[translators[2].engine_id]]
    /\ create_result.kind = "ValueError"
====
